---------------------------- MODULE Spec2Model ----------------------------
(***************************************************************************)
(* A model of the chia-blockchain subset: the service bootstrap harness    *)
(* (chia/simulator/setup_services.py), the coin spend composition engine   *)
(* (chia/wallet/action_manager/coin_info.py) and the CAT wallet            *)
(* (chia/wallet/cat_wallet/cat_wallet.py).                                 *)
(*                                                                         *)
(* Each component has its own variables and its own specification; the     *)
(* actions of one component leave the variables of the others unchanged.   *)
(***************************************************************************)
EXTENDS Integers, Sequences, FiniteSets, TLC

VARIABLES
    \* ---- get_capabilities (setup_services.py) ----
    capMaster,      \* the master protocol-capability list `capabilities`
    capIn,          \* the disabled-list as the caller built it (before the call)
    capArg,         \* the caller's list object after the call
    capResult,      \* the list get_capabilities returned
    capPath,        \* which return statement produced it
    \* ---- dbp (setup_services.py) ----
    fs,             \* the file at each db_path: NoFile or its content
    dbpPc,          \* per path: position of the dbp context manager
    dbpVersion,     \* per path: the db_version argument of the running dbp
    dbpEntry,       \* per path: the file as it was when the guarded block was entered
    \* ---- CoinInfo.create_spend_for_actions (coin_info.py) ----
    ciDrivers,      \* the coin's outer and inner driver: supported actions, aliases
    ciActions,      \* the `actions` argument of the last call
    ciModified,     \* what outer_driver.check_and_modify_actions returned in it
    ciResult,       \* what the call returned: actions left and the CoinSpend built
    ciPc,           \* "idle" before the first call, then "returned"
    \* ---- CATWallet.sign (cat_wallet.py) ----
    sgBundle,       \* the spend_bundle argument: its coin spends
    sgIdx,          \* the coin spend the outer loop is at
    sgSigs,         \* the local list `sigs`
    sgResult,       \* the bundle sign returned, if it returned one
    sgPc,           \* "idle", "signing", "returned" or "raised"
    \* ---- the wallet registry (cat_wallet.py creation paths) ----
    user_store,     \* wallet_state_manager.user_store: the WalletInfo rows
    next_wallet_id, \* the id user_store.create_wallet gives out next
    wallets,        \* wallet_state_manager.wallets: the registered wallet objects
    lineage_stores, \* asset ids CATLineageStore.create was called for, in order
    tx_queue,       \* the records handed to standard_wallet.push_transaction
    std_balance,    \* confirmed balance of the funding (standard) wallet
    wCall,          \* the last creation call: arguments, outcome, state before it
    \* ---- spending from one CAT wallet (cat_wallet.py) ----
    coin_store,     \* the wallet's unspent coins that have a lineage proof
    tx_store,       \* the unconfirmed transactions recorded
    cost_of_single_tx,   \* CATWallet.cost_of_single_tx: None or the cached cost
    MAX_BLOCK_COST_CLVM, \* wallet_state_manager.constants.MAX_BLOCK_COST_CLVM
    lock,           \* wallet_state_manager.lock: 0 or the task holding it
    txPc,           \* per task: "idle", "calling" or "built"
    txSel,          \* per task: the coins its construction selected
    msCall,         \* the last get_max_send_amount call and what it returned
    gstCall,        \* the last generate_signed_transaction call followed to its end
    \* ---- CATWallet.select_coins_from_spend_descriptions (cat_wallet.py) ----
    previous_actions,   \* the coin spends of the bundle in progress
    sdCall,         \* the last call: its coin_spec and what it returned
    \* ---- rpc_state (test_dao_wallets.py) ----
    rsTimeout,      \* the scaled timeout, in tenths of a time unit
    rsElapsed,      \* time.monotonic() - start, in tenths, as far as it matters
    rsPc,           \* "idle", "poll", "sleep", "returned", "timed_out" or "raised"
    rsLast,         \* how the last poll went
    rsPolls,        \* the number of polls made so far, modulo 2
    \* ---- CoinInfo.alias_actions (coin_info.py) ----
    alDefault,      \* default_aliases.values(), in order
    alInner,        \* inner_driver.get_aliases().values(), in order
    alOuter,        \* outer_driver.get_aliases().values(), in order
    alCall,         \* the last call: its actions and the materialised result
    \* the confirmed balance of a CAT wallet
    coin_records,   \* the wallet's records in the coin store
    lineage_store,  \* the lineage proofs stored, each under a coin id
    tx_records,     \* the ids under which the transaction store has a record
    psCall,         \* the last puzzle_solution_received: its arguments, the stores it found
    caCall,         \* the last coin_added: the coin, how the backfill went, how the call ended
    cbCall,         \* the last get_confirmed_balance call and what it returned
    \* setup_wallet_node / setup_full_node
    hnKind,         \* the constructor in use
    hnPc,           \* where the constructor stands
    hnService,      \* the state of the service it made
    hnDb,           \* the file at db_path
    hnKeys,         \* the number of keys in the throwaway keyring
    hnBody,         \* how often the test has used the service
    hnLog,          \* what the constructor has done so far
    \* the DAO voting tally
    daoChain,       \* the proposals as the chain has them
    daoMempool,     \* the spend waiting for the next block
    daoConfirmed,   \* the vote spends confirmed so far, in order
    daoInfo,        \* each participant's dao_info.proposals_list
    daoSynced,      \* whether the participant's wallet has synced to the chain
    \* the life of one DAO proposal
    dlHeight,       \* the height of the chain
    dlProposal,     \* the proposal as the chain has it
    dlTreasury,     \* the treasury's balance
    dlRecipient,    \* the balance of the wallet a spend proposal pays
    dlInfo,         \* the proposal in each participant's proposals_list
    dlCall,         \* the last call and its answer
    \* DAO wallets under a reorg
    drChain,        \* the blocks of the chain: the DAO spend of each, if any
    drMempool,      \* the spends waiting for a block
    drView,         \* per wallet: the height it is synced to, the spends it applied
    drReorg,        \* what the wallets reported before the reorg under way
    \* the DAO CAT lockup
    lkProposal,     \* per proposal: its coin, its tally, whether it is closed
    lkCat,          \* per voter: the balance of the CAT wallet
    lkLocked,       \* per voter: the locked coin and its active_votes
    lkMempool,      \* the vote spends waiting for a block
    lkCall,         \* the last operation and the state it found
    \* generate_unsigned_spendbundle
    tdCall,         \* the last call: its arguments, the tandem transaction, the announcer's solution
    \* OuterDriver.construct_outer_solution
    rgCall,         \* the last call: the bundle, the ring, the indices, the outcome
    \* get_or_create_wallet_for_cat run by several tasks
    gcCall,         \* per task: where its call stands, the asset id, the wallet id
    gcLock,         \* the task that holds wallet_state_manager.lock, 0 when free
    gcSkipped       \* some caller has made its call outside the lock

capVars == <<capMaster, capIn, capArg, capResult, capPath>>
dbpVars == <<fs, dbpPc, dbpVersion, dbpEntry>>
ciVars == <<ciDrivers, ciActions, ciModified, ciResult, ciPc>>
sgVars == <<sgBundle, sgIdx, sgSigs, sgResult, sgPc>>
regVars == <<user_store, next_wallet_id, wallets, lineage_stores, tx_queue, std_balance,
             wCall>>
catVars == <<coin_store, tx_store, cost_of_single_tx, MAX_BLOCK_COST_CLVM, lock, txPc, txSel,
             msCall, gstCall>>
sdVars == <<previous_actions, sdCall>>
rsVars == <<rsTimeout, rsElapsed, rsPc, rsLast, rsPolls>>
alVars == <<alDefault, alInner, alOuter, alCall>>
lnVars == <<coin_records, lineage_store, tx_records, cbCall, psCall, caCall>>
hnVars == <<hnKind, hnPc, hnService, hnDb, hnKeys, hnBody, hnLog>>
daoVars == <<daoChain, daoMempool, daoConfirmed, daoInfo, daoSynced>>
dlVars == <<dlHeight, dlProposal, dlTreasury, dlRecipient, dlInfo, dlCall>>
drVars == <<drChain, drMempool, drView, drReorg>>
lkVars == <<lkProposal, lkCat, lkLocked, lkMempool, lkCall>>
tdVars == <<tdCall>>
rgVars == <<rgCall>>
gcVars == <<gcCall, gcLock, gcSkipped>>
vars == <<capVars, dbpVars, ciVars, sgVars, regVars, catVars, sdVars, rsVars, alVars, lnVars, hnVars, daoVars, dlVars, drVars, lkVars, tdVars, rgVars, gcVars>>

\* what the actions of one component leave alone
notCap == <<dbpVars, ciVars, sgVars, regVars, catVars, sdVars, rsVars, alVars, lnVars, hnVars, daoVars, dlVars, drVars, lkVars, tdVars, rgVars, gcVars>>
notDbp == <<capVars, ciVars, sgVars, regVars, catVars, sdVars, rsVars, alVars, lnVars, hnVars, daoVars, dlVars, drVars, lkVars, tdVars, rgVars, gcVars>>
notCi == <<capVars, dbpVars, sgVars, regVars, catVars, sdVars, rsVars, alVars, lnVars, hnVars, daoVars, dlVars, drVars, lkVars, tdVars, rgVars, gcVars>>
notSg == <<capVars, dbpVars, ciVars, regVars, catVars, sdVars, rsVars, alVars, lnVars, hnVars, daoVars, dlVars, drVars, lkVars, tdVars, rgVars, gcVars>>
notReg == <<capVars, dbpVars, ciVars, sgVars, catVars, sdVars, rsVars, alVars, lnVars, hnVars, daoVars, dlVars, drVars, lkVars, tdVars, rgVars, gcVars>>
notCat == <<capVars, dbpVars, ciVars, sgVars, regVars, sdVars, rsVars, alVars, lnVars, hnVars, daoVars, dlVars, drVars, lkVars, tdVars, rgVars, gcVars>>
notSd == <<capVars, dbpVars, ciVars, sgVars, regVars, catVars, rsVars, alVars, lnVars, hnVars, daoVars, dlVars, drVars, lkVars, tdVars, rgVars, gcVars>>
notRs == <<capVars, dbpVars, ciVars, sgVars, regVars, catVars, sdVars, alVars, lnVars, hnVars, daoVars, dlVars, drVars, lkVars, tdVars, rgVars, gcVars>>
notAl == <<capVars, dbpVars, ciVars, sgVars, regVars, catVars, sdVars, rsVars, lnVars, hnVars, daoVars, dlVars, drVars, lkVars, tdVars, rgVars, gcVars>>
notLn == <<capVars, dbpVars, ciVars, sgVars, regVars, catVars, sdVars, rsVars, alVars, hnVars, daoVars, dlVars, drVars, lkVars, tdVars, rgVars, gcVars>>
notHn == <<capVars, dbpVars, ciVars, sgVars, regVars, catVars, sdVars, rsVars, alVars, lnVars, daoVars, dlVars, drVars, lkVars, tdVars, rgVars, gcVars>>
notDao == <<capVars, dbpVars, ciVars, sgVars, regVars, catVars, sdVars, rsVars, alVars, lnVars, hnVars, dlVars, drVars, lkVars, tdVars, rgVars, gcVars>>
notDl == <<capVars, dbpVars, ciVars, sgVars, regVars, catVars, sdVars, rsVars, alVars, lnVars, hnVars, daoVars, drVars, lkVars, tdVars, rgVars, gcVars>>
notDr == <<capVars, dbpVars, ciVars, sgVars, regVars, catVars, sdVars, rsVars, alVars, lnVars, hnVars, daoVars, dlVars, lkVars, tdVars, rgVars, gcVars>>
notLk == <<capVars, dbpVars, ciVars, sgVars, regVars, catVars, sdVars, rsVars, alVars, lnVars, hnVars, daoVars, dlVars, drVars, tdVars, rgVars, gcVars>>
notTd == <<capVars, dbpVars, ciVars, sgVars, regVars, catVars, sdVars, rsVars, alVars, lnVars, hnVars, daoVars, dlVars, drVars, lkVars, rgVars, gcVars>>
notRg == <<capVars, dbpVars, ciVars, sgVars, regVars, catVars, sdVars, rsVars, alVars, lnVars, hnVars, daoVars, dlVars, drVars, lkVars, tdVars, gcVars>>
notGc == <<capVars, dbpVars, ciVars, sgVars, regVars, catVars, sdVars, rsVars, alVars, lnVars, hnVars, daoVars, dlVars, drVars, lkVars, tdVars, rgVars>>
notRegGc == <<capVars, dbpVars, ciVars, sgVars, catVars, sdVars, rsVars, alVars, lnVars, hnVars, daoVars, dlVars, drVars, lkVars, tdVars, rgVars>>

\* The disable_capabilities_values argument: Python's None, a list, or (against
\* the annotation) a tuple, which has no remove().
NoneList == [none |-> TRUE, kind |-> "list", v |-> <<>>]
SomeList(s) == [none |-> FALSE, kind |-> "list", v |-> s]
SomeTuple(s) == [none |-> FALSE, kind |-> "tuple", v |-> s]

(***************************************************************************)
(* Sequence helpers with Python's list semantics.                          *)
(***************************************************************************)
\* x in lst
Contains(lst, x) == \E i \in 1..Len(lst) : lst[i] = x

\* lst.remove(x): drops the FIRST occurrence only
RemoveFirst(lst, x) ==
    LET i == CHOOSE k \in 1..Len(lst) : lst[k] = x /\ \A j \in 1..(k-1) : lst[j] /= x
    IN  [k \in 1..(Len(lst)-1) |-> IF k < i THEN lst[k] ELSE lst[k+1]]

\* all sequences over S of length at most n
SeqsUpTo(S, n) == UNION {[1..k -> S] : k \in 0..n}

RECURSIVE SumSeq(_)
SumSeq(s) == IF s = <<>> THEN 0 ELSE Head(s) + SumSeq(Tail(s))

(***************************************************************************)
(* get_capabilities                                                        *)
(***************************************************************************)
\* the longest disabled-list a caller passes
MaxDisabled == 3

\* members of the Capability enum, and their wire values
Capability == {"BASE", "BLOCK_HEADERS", "RATE_LIMITS_V2"}
CapabilityValue == [BASE |-> 1, BLOCK_HEADERS |-> 2, RATE_LIMITS_V2 |-> 3]
\* Capability(int(v)): the enum member with wire value v
CapabilityOfInt(v) == CHOOSE c \in Capability : CapabilityValue[c] = v

\* a value that is no member of the enum
NotACapability == "NOT_A_CAPABILITY"
DisabledElems == Capability \cup {NotACapability}

\* the master list: (value, flag) pairs in enum order; BASE is always on
MasterLists ==
    {<< <<1, "1">>, <<2, f2>>, <<3, f3>> >> : f2 \in {"0", "1"}, f3 \in {"0", "1"}}

\* lines 57-63: the loop over the master list
UpdatedCapabilities(master, disabled) ==
    [i \in 1..Len(master) |->
        IF Contains(disabled, CapabilityOfInt(master[i][1]))
        THEN <<master[i][1], "0">>
        ELSE master[i]]

\* A variant that gives up on a list holding a value outside the enum.
get_capabilities_rejecting(master, disabled) ==
    IF disabled.none \/ Contains(disabled.v, NotACapability)
    THEN [ret |-> master, arg |-> disabled, path |-> "fallback"]
    ELSE IF Contains(disabled.v, "BASE") /\ disabled.kind = "tuple"
    THEN [ret |-> master, arg |-> disabled, path |-> "fallback"]
    ELSE LET d == IF Contains(disabled.v, "BASE") THEN RemoveFirst(disabled.v, "BASE")
                  ELSE disabled.v
         IN  [ret |-> UpdatedCapabilities(master, d),
              arg |-> [disabled EXCEPT !.v = d], path |-> "updated"]

\* get_capabilities: the returned list, the caller's object afterwards, the path.
\* On a list no operation of the try block raises, whatever the list holds: `in`
\* and `remove` compare with ==, and the enum conversion is applied to the master
\* list's values only.  On a tuple holding BASE, remove raises AttributeError,
\* which the except clause logs before the fallback return.
get_capabilities(master, disabled) ==
    IF disabled.none
    THEN [ret |-> master, arg |-> disabled, path |-> "fallback"]
    ELSE IF Contains(disabled.v, "BASE") /\ disabled.kind = "tuple"
    THEN [ret |-> master, arg |-> disabled, path |-> "fallback"]
    ELSE LET d == IF Contains(disabled.v, "BASE") THEN RemoveFirst(disabled.v, "BASE")
                  ELSE disabled.v
         IN  [ret |-> UpdatedCapabilities(master, d),
              arg |-> [disabled EXCEPT !.v = d], path |-> "updated"]

CapInit ==
    /\ capMaster \in MasterLists
    /\ capIn = NoneList
    /\ capArg = NoneList
    /\ capResult = <<>>
    /\ capPath = "none"

DisabledInputs ==
    {NoneList}
    \cup {SomeList(s) : s \in SeqsUpTo(DisabledElems, MaxDisabled)}
    \cup {SomeTuple(s) : s \in SeqsUpTo(DisabledElems, MaxDisabled)}

\* a caller builds an argument and calls get_capabilities
CallGetCapabilities ==
    /\ capPath = "none"
    /\ \E d \in DisabledInputs :
        LET r == get_capabilities(capMaster, d)
        IN  /\ capIn' = d
            /\ capArg' = r.arg
            /\ capResult' = r.ret
            /\ capPath' = r.path
            /\ UNCHANGED capMaster
            /\ UNCHANGED notCap

\* the caller is done with the returned list and its argument
CapCallerDone ==
    /\ capPath /= "none"
    /\ capIn' = NoneList
    /\ capArg' = NoneList
    /\ capResult' = <<>>
    /\ capPath' = "none"
    /\ UNCHANGED capMaster
    /\ UNCHANGED notCap

CapNext ==
    \/ CallGetCapabilities
    \/ CapCallerDone

(***************************************************************************)
(* dbp: the scoped database file of a node under test                      *)
(***************************************************************************)
\* the largest db_version a test passes
MaxDbVersion == 3

Paths == {"db_a", "db_b"}
DbVersions == 1..MaxDbVersion

\* A file: absent, or present with (maybe) the table database_version and its
\* rows, and (maybe) other data written by a node.
NoFile == [exists |-> FALSE, hasTable |-> FALSE, rows |-> <<>>, other |-> FALSE]
\* lines 94-97: sqlite3.connect creates the file; CREATE TABLE; INSERT one row
SchemaStub(v) == [exists |-> TRUE, hasTable |-> TRUE, rows |-> <<v>>, other |-> FALSE]
\* files an earlier run may have left behind
Leftovers ==
    {[exists |-> TRUE, hasTable |-> FALSE, rows |-> <<>>, other |-> TRUE]}
    \cup {[exists |-> TRUE, hasTable |-> TRUE, rows |-> <<v>>, other |-> TRUE] :
            v \in DbVersions}

\* lines 90-97: the file at db_path when the guarded block is entered.  The
\* schema stub is written inside the `if db_path.exists()` branch.
dbp_enter(file, v) ==
    IF file.exists
    THEN IF v > 1 THEN SchemaStub(v) ELSE NoFile
    ELSE file

\* lines 101-102
dbp_exit(file) == IF file.exists THEN NoFile ELSE file

DbpInit ==
    /\ fs = [p \in Paths |-> NoFile]
    /\ dbpPc = [p \in Paths |-> "idle"]
    /\ dbpVersion = [p \in Paths |-> 1]
    /\ dbpEntry = [p \in Paths |-> NoFile]

\* a file is at db_path before dbp is entered (an earlier run left it)
LeftoverFile(p) ==
    /\ dbpPc[p] = "idle"
    /\ ~fs[p].exists
    /\ \E f \in Leftovers : fs' = [fs EXCEPT ![p] = f]
    /\ UNCHANGED <<dbpPc, dbpVersion, dbpEntry>>
    /\ UNCHANGED notDbp

\* `with dbp(db_path, db_version):` up to the yield
DbpEnter(p) ==
    /\ dbpPc[p] = "idle"
    /\ \E v \in DbVersions :
        /\ fs' = [fs EXCEPT ![p] = dbp_enter(fs[p], v)]
        /\ dbpVersion' = [dbpVersion EXCEPT ![p] = v]
        /\ dbpEntry' = [dbpEntry EXCEPT ![p] = dbp_enter(fs[p], v)]
    /\ dbpPc' = [dbpPc EXCEPT ![p] = "in_block"]
    /\ UNCHANGED notDbp

\* inside the guarded block the node opens its database at db_path
NodeWritesDb(p) ==
    /\ dbpPc[p] = "in_block"
    /\ ~fs[p].other
    /\ fs' = [fs EXCEPT ![p] = [fs[p] EXCEPT !.exists = TRUE, !.other = TRUE]]
    /\ UNCHANGED <<dbpPc, dbpVersion, dbpEntry>>
    /\ UNCHANGED notDbp

\* the guarded block ends normally: the code after the yield runs
DbpExit(p) ==
    /\ dbpPc[p] = "in_block"
    /\ fs' = [fs EXCEPT ![p] = dbp_exit(fs[p])]
    /\ dbpPc' = [dbpPc EXCEPT ![p] = "exited"]
    /\ UNCHANGED <<dbpVersion, dbpEntry>>
    /\ UNCHANGED notDbp

\* the guarded block raises: contextmanager throws into the generator at the
\* yield, which has no try/finally, so the code after the yield does not run
DbpBlockRaises(p) ==
    /\ dbpPc[p] = "in_block"
    /\ dbpPc' = [dbpPc EXCEPT ![p] = "failed"]
    /\ UNCHANGED <<fs, dbpVersion, dbpEntry>>
    /\ UNCHANGED notDbp

\* the same path is used by the next test
DbpNextRun(p) ==
    /\ dbpPc[p] \in {"exited", "failed"}
    /\ dbpPc' = [dbpPc EXCEPT ![p] = "idle"]
    /\ dbpEntry' = [dbpEntry EXCEPT ![p] = NoFile]
    /\ dbpVersion' = [dbpVersion EXCEPT ![p] = 1]
    /\ UNCHANGED fs
    /\ UNCHANGED notDbp

DbpNext ==
    \/ \E p \in Paths : LeftoverFile(p)
    \/ \E p \in Paths : DbpEnter(p)
    \/ \E p \in Paths : NodeWritesDb(p)
    \/ \E p \in Paths : DbpExit(p)
    \/ \E p \in Paths : DbpBlockRaises(p)
    \/ \E p \in Paths : DbpNextRun(p)

(***************************************************************************)
(* CoinInfo.create_spend_for_actions                                       *)
(***************************************************************************)
\* the longest action list a caller passes
MaxActions == 3

\* Action and alias names.  An action (a Solver, or the WalletAction made from
\* it) is modelled by its "type" entry, which is all the engine reads.
ActionTypes == {"condition", "make_announcement", "run_tail", "direct_payment"}
Action(t) == [type |-> t]
NoAlias == "-"

\* An alias table maps an alias name to the type its de_alias() produces.
EmptyAliases == [t \in ActionTypes |-> NoAlias]
AliasTable(t, target) == [EmptyAliases EXCEPT ![t] = target]

\* The drivers a coin may carry: what get_actions() and get_aliases() return,
\* and the default aliases the caller passes.
DriverConfigs ==
    [outer : {{}, {"run_tail"}},
     inner : {{"condition"}, {"condition", "make_announcement"}},
     defaultAl : {EmptyAliases, AliasTable("direct_payment", "condition")},
     innerAl : {EmptyAliases, AliasTable("direct_payment", "make_announcement")},
     outerAl : {EmptyAliases, AliasTable("direct_payment", "run_tail")}]

\* lines 72-76: {**default_aliases, **inner aliases, **outer aliases}: a later
\* table overrides an earlier one
action_aliases(d) ==
    [t \in ActionTypes |->
        IF d.outerAl[t] /= NoAlias THEN d.outerAl[t]
        ELSE IF d.innerAl[t] /= NoAlias THEN d.innerAl[t]
        ELSE d.defaultAl[t]]

\* lines 83-85: alias.from_solver(action).de_alias().to_solver()
de_alias(d, a) ==
    IF action_aliases(d)[a.type] /= NoAlias
    THEN Action(action_aliases(d)[a.type])
    ELSE a

\* A variant that hands back an unsupported action as it was passed.
RECURSIVE classify_left_as_passed(_, _, _)
classify_left_as_passed(d, actions, acc) ==
    IF actions = <<>> THEN acc
    ELSE LET a == de_alias(d, Head(actions))
         IN  classify_left_as_passed(d, Tail(actions),
                IF a.type \in d.outer
                THEN [acc EXCEPT !.outer = Append(@, a)]
                ELSE IF a.type \in d.inner
                THEN [acc EXCEPT !.inner = Append(@, a)]
                ELSE [acc EXCEPT !.left = Append(@, Head(actions))])

\* lines 79-91: the classification loop; acc holds the three lists so far
RECURSIVE classify(_, _, _)
classify(d, actions, acc) ==
    IF actions = <<>> THEN acc
    ELSE LET a == de_alias(d, Head(actions))
         IN  classify(d, Tail(actions),
                IF a.type \in d.outer
                THEN [acc EXCEPT !.outer = Append(@, a)]
                ELSE IF a.type \in d.inner
                THEN [acc EXCEPT !.inner = Append(@, a)]
                ELSE [acc EXCEPT !.left = Append(@, a)])

\* What an outer driver's check_and_modify_actions may do with the split
\* (lines 94-96); the engine accepts whatever pair of lists comes back.
ModifyKinds ==
    {[kind |-> "keep", t |-> "condition"],
     [kind |-> "outer_to_inner", t |-> "condition"],
     [kind |-> "drop_outer", t |-> "condition"]}
    \cup {[kind |-> "add_inner_first", t |-> t] : t \in ActionTypes}
    \cup {[kind |-> "add_inner_last", t |-> t] : t \in ActionTypes}

check_and_modify_actions(m, outer, inner) ==
    CASE m.kind = "keep" -> [outer |-> outer, inner |-> inner]
      [] m.kind = "outer_to_inner" -> [outer |-> <<>>, inner |-> inner \o outer]
      [] m.kind = "drop_outer" -> [outer |-> <<>>, inner |-> inner]
      [] m.kind = "add_inner_first" -> [outer |-> outer, inner |-> <<Action(m.t)>> \o inner]
      [] m.kind = "add_inner_last" -> [outer |-> outer, inner |-> Append(inner, Action(m.t))]

\* lines 99-100: some new inner action is not supported by the inner driver
inner_unsupported(d, newInner) ==
    \E i \in 1..Len(newInner) : newInner[i].type \notin d.inner

\* A variant that forgets to hand back the original list on abort.
actions_left_on_abort_partial(actions, left) == left

\* line 102: actions_left = actions
actions_left_on_abort(actions, left) == actions

\* lines 107-115: what the drivers are asked to construct, on every path
Constructions ==
    {"construct_inner_puzzle", "construct_inner_solution", "construct_outer_puzzle",
     "construct_outer_solution"}

\* lines 65-117.  The inner and outer puzzle and solution are built, and a
\* CoinSpend returned, on the abort path too (from the emptied action lists);
\* the spend is modelled by the action lists it was built from.
create_spend_for_actions(d, actions, m) ==
    LET split == classify(d, actions, [outer |-> <<>>, inner |-> <<>>, left |-> <<>>])
        new   == check_and_modify_actions(m, split.outer, split.inner)
        abort == inner_unsupported(d, new.inner)
    IN  [modified |-> new,
         split |-> split,
         left |-> IF abort THEN actions_left_on_abort(actions, split.left)
                  ELSE split.left,
         spend |-> IF abort THEN [outer |-> <<>>, inner |-> <<>>]
                   ELSE [outer |-> new.outer, inner |-> new.inner],
         constructed |-> Constructions,
         coin_spend |-> TRUE]

NoSpend == [outer |-> <<>>, inner |-> <<>>]
\* no call has returned
NoCiResult == [left |-> <<>>, spend |-> NoSpend, constructed |-> {}, coin_spend |-> FALSE,
               outer_actions |-> <<>>, inner_actions |-> <<>>]

CiIdle ==
    /\ ciDrivers = [outer |-> {}, inner |-> {"condition"}, defaultAl |-> EmptyAliases,
                    innerAl |-> EmptyAliases, outerAl |-> EmptyAliases]
    /\ ciActions = <<>>
    /\ ciModified = NoSpend
    /\ ciResult = NoCiResult
    /\ ciPc = "idle"

CiInit ==
    /\ ciDrivers \in DriverConfigs
    /\ ciActions = <<>>
    /\ ciModified = NoSpend
    /\ ciResult = NoCiResult
    /\ ciPc = "idle"

\* a caller passes an action list; the outer driver answers with m
CallCreateSpendForActions ==
    /\ ciPc = "idle"
    /\ \E actions \in SeqsUpTo({Action(t) : t \in ActionTypes}, MaxActions),
          m \in ModifyKinds :
        LET r == create_spend_for_actions(ciDrivers, actions, m)
        IN  /\ ciActions' = actions
            /\ ciModified' = r.modified
            /\ ciResult' = [left |-> r.left, spend |-> r.spend,
                            constructed |-> r.constructed, coin_spend |-> r.coin_spend,
                            outer_actions |-> r.split.outer,
                            inner_actions |-> r.split.inner]
            /\ ciPc' = "returned"
            /\ UNCHANGED ciDrivers
            /\ UNCHANGED notCi

\* the caller is done with the returned pair
CiCallerDone ==
    /\ ciPc = "returned"
    /\ ciActions' = <<>>
    /\ ciModified' = NoSpend
    /\ ciResult' = NoCiResult
    /\ ciPc' = "idle"
    /\ UNCHANGED ciDrivers
    /\ UNCHANGED notCi

CiNext ==
    \/ CallCreateSpendForActions
    \/ CiCallerDone

(***************************************************************************)
(* CATWallet.sign                                                          *)
(***************************************************************************)
\* the most coin spends in a bundle, and AGG_SIG_ME conditions in a spend
MaxSpends == 2
MaxObligations == 2

\* the wallet's private keys, one per inner puzzle hash it owns
PrivateKeys == {"sk_a", "sk_b"}
\* line 518: calculate_synthetic_secret_key(private, DEFAULT_HIDDEN_PUZZLE_HASH)
calculate_synthetic_secret_key(sk) == [secret |-> sk, hidden |-> "DEFAULT_HIDDEN_PUZZLE_HASH"]
\* line 524: synthetic_secret_key.get_g1()
get_g1(ssk) == [pk_of |-> ssk]
\* the public keys a spend's AGG_SIG_ME conditions may name
PublicKeys == {get_g1(calculate_synthetic_secret_key(sk)) : sk \in PrivateKeys}

\* A coin spend: whether its puzzle matches the CAT template (line 513), the
\* private key get_private_key finds for its inner puzzle hash (line 517), and
\* the public keys of its AGG_SIG_ME conditions in order (line 525).
CatSpends ==
    [cat : {TRUE}, owner : PrivateKeys, pks : SeqsUpTo(PublicKeys, MaxObligations)]
OtherSpends ==
    [cat : {FALSE}, owner : {"sk_a"}, pks : SeqsUpTo(PublicKeys, MaxObligations)]
CoinSpends == CatSpends \cup OtherSpends

NoBundle == [some |-> FALSE, coin_spends |-> <<>>, sigs |-> <<>>]

\* AugSchemeMPL.sign(synthetic_secret_key, msg): msg is fixed by the coin
\* spend (i) and the condition (j)
Signature(ssk, i, j) == [by |-> ssk, spend |-> i, cond |-> j]

\* the key the wallet signs spend sp with
synthetic_pk(sp) == get_g1(calculate_synthetic_secret_key(sp.owner))

\* A variant that leaves out the obligations it cannot sign and goes on.
sign_spend_skipping(sp, i) ==
    [raised |-> FALSE,
     sigs |-> IF sp.cat
              THEN LET idx == {j \in 1..Len(sp.pks) : sp.pks[j] = synthetic_pk(sp)}
                       RECURSIVE pick(_)
                       pick(j) == IF j > Len(sp.pks) THEN <<>>
                                  ELSE IF j \in idx
                                  THEN <<Signature(calculate_synthetic_secret_key(sp.owner), i, j)>>
                                        \o pick(j + 1)
                                  ELSE pick(j + 1)
                   IN pick(1)
              ELSE <<>>]

\* lines 513-532, one pass of the outer loop: the signatures appended for
\* coin spend i, or the ValueError of the first obligation that names another
\* public key (the signatures appended before it are in the lost local list)
sign_spend(sp, i) ==
    IF ~sp.cat THEN [raised |-> FALSE, sigs |-> <<>>]
    ELSE LET bad == {j \in 1..Len(sp.pks) : sp.pks[j] /= synthetic_pk(sp)}
             upto == IF bad = {} THEN Len(sp.pks)
                     ELSE (CHOOSE j \in bad : \A k \in bad : j <= k) - 1
         IN  [raised |-> bad /= {},
              sigs |-> [j \in 1..upto |->
                          Signature(calculate_synthetic_secret_key(sp.owner), i, j)]]

SgInit ==
    /\ sgBundle = <<>>
    /\ sgIdx = 0
    /\ sgSigs = <<>>
    /\ sgResult = NoBundle
    /\ sgPc = "idle"

\* sign(spend_bundle) is called: line 511
SignBegin ==
    /\ sgPc = "idle"
    /\ sgBundle' \in SeqsUpTo(CoinSpends, MaxSpends)
    /\ sgIdx' = 1
    /\ sgSigs' = <<>>
    /\ sgResult' = NoBundle
    /\ sgPc' = "signing"
    /\ UNCHANGED notSg

\* one pass of `for spend in spend_bundle.coin_spends`
SignCoinSpend ==
    /\ sgPc = "signing"
    /\ sgIdx <= Len(sgBundle)
    /\ LET r == sign_spend(sgBundle[sgIdx], sgIdx)
       IN  /\ sgSigs' = sgSigs \o r.sigs
           /\ sgPc' = IF r.raised THEN "raised" ELSE "signing"
           /\ sgIdx' = IF r.raised THEN sgIdx ELSE sgIdx + 1
    /\ UNCHANGED <<sgBundle, sgResult>>
    /\ UNCHANGED notSg

\* lines 534-535: aggregate and return
SignReturn ==
    /\ sgPc = "signing"
    /\ sgIdx > Len(sgBundle)
    /\ sgResult' = [some |-> TRUE, coin_spends |-> sgBundle, sigs |-> sgSigs]
    /\ sgPc' = "returned"
    /\ UNCHANGED <<sgBundle, sgIdx, sgSigs>>
    /\ UNCHANGED notSg

\* the caller is done with the outcome
SignCallerDone ==
    /\ sgPc \in {"returned", "raised"}
    /\ sgBundle' = <<>>
    /\ sgIdx' = 0
    /\ sgSigs' = <<>>
    /\ sgResult' = NoBundle
    /\ sgPc' = "idle"
    /\ UNCHANGED notSg

SgNext ==
    \/ SignBegin
    \/ SignCoinSpend
    \/ SignReturn
    \/ SignCallerDone

(***************************************************************************)
(* The wallet registry: create_new_cat_wallet, get_or_create_wallet_for_cat *)
(***************************************************************************)
\* the most wallet ids given out after the standard wallet's, and the largest
\* confirmed balance of the funding wallet
MaxWallets == 2
MaxBalance == 1

\* Hex strings are sequences of characters.  Asset ids are scaled down from
\* 32 bytes to one byte, written with the digits 0 and a.
LowerDigits == {"0", "a"}
HexDigits == {"0", "a", "A"}
NibbleOf(c) == IF c = "0" THEN 0 ELSE 10
DigitOf(n) == IF n = 0 THEN "0" ELSE "a"

\* bytes.fromhex on a two-digit string, and bytes.hex()
FromHex(h) == 16 * NibbleOf(h[1]) + NibbleOf(h[2])
ToHex(b) == <<DigitOf(b \div 16), DigitOf(b % 16)>>

\* bytes32.from_hexstr: an optional 0x / 0X prefix, then the digits
StripPrefix(h) ==
    IF Len(h) >= 2 /\ h[1] = "0" /\ h[2] \in {"x", "X"} THEN SubSeq(h, 3, Len(h)) ELSE h
WellFormed(h) ==
    /\ Len(StripPrefix(h)) = 2
    /\ \A i \in 1..2 : StripPrefix(h)[i] \in HexDigits

\* A variant that compares the caller's spelling as given.
normalize_as_given(h) == StripPrefix(h)

\* line 203: bytes32.from_hexstr(limitations_program_hash_hex).hex()
normalize(h) == ToHex(FromHex(StripPrefix(h)))

\* the spellings a caller may pass, one of them malformed
HexInputs ==
    {pre \o <<c1, c2>> : pre \in {<<>>, <<"0", "x">>, <<"0", "X">>},
                         c1 \in HexDigits, c2 \in HexDigits}
    \cup {<<"0", "x", "a">>}

\* limitations_program_hash values (bytes)
AssetIds == {FromHex(<<c1, c2>>) : c1 \in LowerDigits, c2 \in LowerDigits}
\* line 117: bytes32(32 * b"\0"), the sentinel of a wallet not yet issued
empty_bytes == 0
\* cat_constants.DEFAULT_CATS: the asset ids (hex) that have a built-in name
DEFAULT_CATS == {<<"a", "a">>}

\* wallet names
TempName == [kind |-> "temporary", text |-> <<"CAT WALLET">>]
DefaultCatName(a) == [kind |-> "default_cat", text |-> a]
\* lines 95-96: f"CAT {hex[:16]}..."
default_wallet_name_for_unknown_cat(a) ==
    [kind |-> "template", text |-> <<"CAT ">> \o SubSeq(a, 1, IF Len(a) < 16 THEN Len(a) ELSE 16)
                                     \o <<"...">>]

StandardWalletId == 1
StandardWallet == [id |-> StandardWalletId, type |-> "STANDARD_WALLET", asset |-> 0]

\* lines 338-339: get_asset_id
get_asset_id(w) == ToHex(w.asset)
\* bytes(self.cat_info).hex(): the data column of a CAT wallet's row
info_as_string(asset) == ToHex(asset)

\* lines 205-208: the registered CAT wallets whose asset id is the string a
CatWalletsFor(ws, a) == {w \in ws : w.type = "CAT" /\ get_asset_id(w) = a}
\* `for id, w in wallets.items()` walks the dict in insertion order, which is
\* id order here: the first match is returned
FirstCatWalletFor(ws, a) ==
    CHOOSE w \in CatWalletsFor(ws, a) : \A v \in CatWalletsFor(ws, a) : w.id <= v.id

\* What the issuance routine, the bundle it returns and the puzzle store may
\* come to (lines 129-165).
IssuanceOutcomes ==
    [kind : {"raises", "hash_not_set", "bundle_none"}, asset : {empty_bytes}]
    \cup [kind : {"bundle_none", "unknown_puzzle_hash", "coin_not_found", "ok"},
          asset : AssetIds \ {empty_bytes}]

Snapshot ==
    [user_store |-> user_store, next_wallet_id |-> next_wallet_id, wallets |-> wallets,
     lineage_stores |-> lineage_stores, tx_queue |-> tx_queue]

NoCall ==
    [op |-> "none", amount |-> 0, balance |-> 0, hex |-> <<>>, issuance |-> "none",
     outcome |-> "none", message |-> "", message_values |-> {}, wallet |-> 0,
     provisional |-> 0,
     pre |-> [user_store |-> {}, next_wallet_id |-> 0, wallets |-> {},
              lineage_stores |-> <<>>, tx_queue |-> <<>>]]

RegInit ==
    /\ user_store = {[id |-> StandardWalletId, name |-> [kind |-> "given", text |-> <<"Chia Wallet">>],
                      type |-> "STANDARD_WALLET", data |-> <<>>]}
    /\ next_wallet_id = 2
    /\ wallets = {StandardWallet}
    /\ lineage_stores = <<>>
    /\ tx_queue = <<>>
    /\ std_balance = 0
    /\ wCall = NoCall

\* user_store.create_wallet / delete_wallet / update_wallet
create_wallet(store, id, name, data) ==
    store \cup {[id |-> id, name |-> name, type |-> "CAT", data |-> data]}
delete_wallet(store, id) == {r \in store : r.id /= id}
update_wallet(store, id, name, data) ==
    {IF r.id = id THEN [r EXCEPT !.name = name, !.data = data] ELSE r : r \in store}

\* A variant without the balance check.
insufficient_balance_unchecked(amount, bal) == FALSE

\* lines 111-112: amount > bal
insufficient_balance(amount, bal) == amount > bal

\* A variant whose message names the balance and the amount asked for.
not_enough_balance_with_values(amount, bal) ==
    [text |-> "Not enough balance", values |-> {bal, amount}]

\* line 113: ValueError("Not enough balance"), a literal with no value
\* formatted into it
not_enough_balance(amount, bal) == [text |-> "Not enough balance", values |-> {}]

\* lines 99-189, name = None
create_new_cat_wallet(amount, iss) ==
    LET id == next_wallet_id
        registered == create_wallet(user_store, id, TempName, info_as_string(empty_bytes))
        call == [op |-> "create_new_cat_wallet", amount |-> amount, balance |-> std_balance,
                 hex |-> <<>>, issuance |-> iss.kind, outcome |-> "raised", message |-> "",
                 message_values |-> {},
                 wallet |-> 0, provisional |-> id, pre |-> Snapshot]
        \* lines 144-151: add_new_wallet, then set_name to the template name
        named == update_wallet(registered, id,
                               default_wallet_name_for_unknown_cat(ToHex(iss.asset)),
                               info_as_string(iss.asset))
        added == wallets \cup {[id |-> id, type |-> "CAT", asset |-> iss.asset]}
    IN
    IF insufficient_balance(amount, std_balance)
    THEN \* lines 111-113
         /\ wCall' = [call EXCEPT !.message = not_enough_balance(amount, std_balance).text,
                                  !.message_values = not_enough_balance(amount, std_balance).values,
                                  !.provisional = 0]
         /\ UNCHANGED <<user_store, next_wallet_id, wallets, lineage_stores, tx_queue>>
    ELSE
    /\ next_wallet_id' = id + 1
    /\ UNCHANGED lineage_stores
    /\ CASE iss.kind \in {"raises", "hash_not_set"} ->
              \* lines 137-139
              /\ user_store' = delete_wallet(registered, id)
              /\ wCall' = [call EXCEPT !.message = "issuance failed"]
              /\ UNCHANGED <<wallets, tx_queue>>
         [] iss.kind = "bundle_none" ->
              \* lines 140-142
              /\ user_store' = delete_wallet(registered, id)
              /\ wCall' = [call EXCEPT !.message = "Failed to create spend."]
              /\ UNCHANGED <<wallets, tx_queue>>
         [] iss.kind = "unknown_puzzle_hash" ->
              \* lines 159-160: raises, the store is left as it is
              /\ user_store' = named
              /\ wallets' = added
              /\ wCall' = [call EXCEPT !.message = "Internal Error"]
              /\ UNCHANGED tx_queue
         [] iss.kind = "coin_not_found" ->
              \* lines 164-165: raises, the store is left as it is
              /\ user_store' = named
              /\ wallets' = added
              /\ wCall' = [call EXCEPT
                              !.message = "Internal Error, unable to generate new CAT coin"]
              /\ UNCHANGED tx_queue
         [] iss.kind = "ok" ->
              \* lines 168-189
              /\ user_store' = named
              /\ wallets' = added
              /\ tx_queue' = tx_queue \o
                    << [wallet_id |-> StandardWalletId, type |-> "OUTGOING_TX", sent |-> 0,
                        has_bundle |-> TRUE],
                       [wallet_id |-> id, type |-> "INCOMING_TX", sent |-> 10,
                        has_bundle |-> FALSE] >>
              /\ wCall' = [call EXCEPT !.outcome = "returned", !.wallet = id]

CreateNewCatWallet ==
    /\ wCall = NoCall
    /\ \E amount \in 0..(MaxBalance + 1), iss \in IssuanceOutcomes :
        /\ ~insufficient_balance(amount, std_balance) => next_wallet_id <= MaxWallets + 1
        /\ create_new_cat_wallet(amount, iss)
    /\ UNCHANGED std_balance
    /\ UNCHANGED notReg

\* lines 192-226, name = None
get_or_create_wallet_for_cat(h) ==
    LET call == [op |-> "get_or_create_wallet_for_cat", amount |-> 0, balance |-> std_balance,
                 hex |-> h, issuance |-> "none", outcome |-> "raised", message |-> "",
                 message_values |-> {},
                 wallet |-> 0, provisional |-> 0, pre |-> Snapshot]
    IN
    IF ~WellFormed(h)
    THEN \* line 203 raises ValueError
         /\ wCall' = [call EXCEPT !.message = "invalid hex"]
         /\ UNCHANGED <<user_store, next_wallet_id, wallets, lineage_stores, tx_queue>>
    ELSE IF CatWalletsFor(wallets, normalize(h)) /= {}
    THEN \* lines 205-210
         /\ wCall' = [call EXCEPT !.outcome = "returned",
                                  !.wallet = FirstCatWalletFor(wallets, normalize(h)).id]
         /\ UNCHANGED <<user_store, next_wallet_id, wallets, lineage_stores, tx_queue>>
    ELSE \* lines 212-226
         LET a == normalize(h)
             id == next_wallet_id
             name == IF a \in DEFAULT_CATS THEN DefaultCatName(a)
                     ELSE default_wallet_name_for_unknown_cat(a)
             \* line 219: bytes32(hexstr_to_bytes(limitations_program_hash_hex))
             hash == FromHex(a)
             new == [id |-> id, type |-> "CAT", asset |-> hash]
         IN  /\ user_store' = create_wallet(user_store, id, name, info_as_string(hash))
             /\ next_wallet_id' = id + 1
             /\ lineage_stores' = Append(lineage_stores, get_asset_id(new))
             /\ wallets' = wallets \cup {new}
             /\ wCall' = [call EXCEPT !.outcome = "returned", !.wallet = id]
             /\ UNCHANGED tx_queue

GetOrCreateWalletForCat ==
    /\ wCall = NoCall
    /\ \E h \in HexInputs :
        /\ (WellFormed(h) /\ CatWalletsFor(wallets, normalize(h)) = {})
              => next_wallet_id <= MaxWallets + 1
        /\ get_or_create_wallet_for_cat(h)
    /\ UNCHANGED std_balance
    /\ UNCHANGED notReg

\* a block confirms more funds for the standard wallet
FundsConfirmed ==
    /\ std_balance < MaxBalance
    /\ std_balance' = std_balance + 1
    /\ UNCHANGED <<user_store, next_wallet_id, wallets, lineage_stores, tx_queue, wCall>>
    /\ UNCHANGED notReg

\* the caller has seen the outcome of its call; the next call may come
RegCallerDone ==
    /\ wCall /= NoCall
    /\ wCall' = NoCall
    /\ UNCHANGED <<user_store, next_wallet_id, wallets, lineage_stores, tx_queue, std_balance>>
    /\ UNCHANGED notReg

RegNext ==
    \/ CreateNewCatWallet
    \/ GetOrCreateWalletForCat
    \/ FundsConfirmed
    \/ RegCallerDone

(***************************************************************************)
(* Spending from one CAT wallet: get_max_send_amount, select_coins,        *)
(* generate_signed_transaction and the callers that record its result      *)
(***************************************************************************)
\* the most coins the wallet receives, and the largest amount of one coin
MaxCoins == 3
MaxAmount == 2
\* the largest cost get_name_puzzle_conditions measures for one transaction,
\* and the largest MAX_BLOCK_COST_CLVM a network sets
MaxCost == 2
MaxBlockCost == 6
\* the tasks of the wallet process that construct transactions
MaxTasks == 2
Tasks == 1..MaxTasks

\* Optional[int]
NoCost == [none |-> TRUE, v |-> 0]
SomeCost(c) == [none |-> FALSE, v |-> c]

Coin(n, a) == [name |-> n, amount |-> a]

RECURSIVE SumAmounts(_)
SumAmounts(S) ==
    IF S = {} THEN 0
    ELSE LET c == CHOOSE x \in S : TRUE IN c.amount + SumAmounts(S \ {c})

\* wallet_state_manager.unconfirmed_removals_for_wallet: the coins that the
\* recorded unconfirmed transactions remove
unconfirmed_removals(txs) == UNION {tx.removals : tx \in txs}

\* wallet_state_manager.get_spendable_coins_for_wallet: unspent coins that no
\* unconfirmed transaction removes
get_spendable_coins_for_wallet(coins, txs) == coins \ unconfirmed_removals(txs)

\* lines 460-472: the coin store of the model holds the coins with a lineage
\* proof only, so the filter keeps all of them
get_cat_spendable_coins(coins, txs) == get_spendable_coins_for_wallet(coins, txs)

\* lines 431-437
get_spendable_balance(coins, txs) == SumAmounts(get_cat_spendable_coins(coins, txs))

\* line 298: spendable.sort(reverse=True, key=amount); the amounts in that
\* order (coins of equal amount keep the list's order, which the sum of a
\* prefix does not depend on)
RECURSIVE SortedAmounts(_)
SortedAmounts(S) ==
    IF S = {} THEN <<>>
    ELSE LET c == CHOOSE x \in S : \A y \in S : x.amount >= y.amount
         IN  <<c.amount>> \o SortedAmounts(S \ {c})

\* A variant that breaks once the cost so far is over half the block cost.
loop_breaks_after_overshoot(current_cost, cost, M) == 2 * current_cost > M

\* lines 316 and 325: current_cost + self.cost_of_single_tx > M / 2, a float
\* comparison, exact at these sizes
loop_breaks(current_cost, cost, M) == 2 * (current_cost + cost) > M

\* lines 321-326
RECURSIVE accumulate(_, _, _, _, _)
accumulate(spendable, cost, M, current_cost, total_amount) ==
    IF spendable = <<>> THEN total_amount
    ELSE LET c == current_cost + cost
             t == total_amount + Head(spendable)
         IN  IF loop_breaks(c, cost, M) THEN t
             ELSE accumulate(Tail(spendable), cost, M, c, t)

\* lines 294-328; measured is result.cost of the self-payment built for the
\* largest coin when no cost is cached
get_max_send_amount(coins, txs, cached, M, measured) ==
    LET spendable == get_cat_spendable_coins(coins, txs)
        cost == IF cached.none THEN measured ELSE cached.v
    IN  IF spendable = {}
        THEN [amount |-> 0, cost_of_single_tx |-> cached]
        ELSE [amount |-> accumulate(SortedAmounts(spendable), cost, M, 0, 0),
              cost_of_single_tx |-> SomeCost(cost)]

\* lines 474-508: what chia.wallet.coin_selection.select_coins may return for
\* amount: spendable coins, none of them removed by an unconfirmed
\* transaction, that together cover it (the assert of line 507); no such set
\* is the selection routine's ValueError
select_coins(coins, txs, amount) ==
    IF amount > get_spendable_balance(coins, txs) THEN {}
    ELSE {S \in SUBSET get_cat_spendable_coins(coins, txs) :
            S /= {} /\ SumAmounts(S) >= amount}

\* the memos argument: None, or a list of this many memo lists
NoMemos == [none |-> TRUE, n |-> 0]
SomeMemos(n) == [none |-> FALSE, n |-> n]

\* A variant that takes lists of any lengths.
lengths_unchecked(n_amounts, n_puzzle_hashes, memos) == TRUE

\* lines 820-824: memos defaults to one empty list per puzzle hash; then
\* len(memos) == len(puzzle_hashes) == len(amounts)
lengths_match(n_amounts, n_puzzle_hashes, memos) ==
    LET n_memos == IF memos.none THEN n_puzzle_hashes ELSE memos.n
    IN  n_memos = n_puzzle_hashes /\ n_puzzle_hashes = n_amounts

\* A variant without the max-send check.
never_exceeds(payment_sum, max_send, ignore_max_send_amount) == FALSE

\* lines 833-837
exceeds_max_send(payment_sum, max_send, ignore_max_send_amount) ==
    ~ignore_max_send_amount /\ payment_sum > max_send

\* lines 803-895 with fee 0 and coins None. The result: how the call ends,
\* the steps it went through, the cost cache after it, the selections
\* select_coins may have made for the bundle that was built and signed, and
\* what get_max_send_amount returns in the state of the call.
generate_signed_transaction(amounts, n_puzzle_hashes, memos, ignore, coins, txs, cached, M, measured) ==
    LET payment_sum == SumSeq(amounts)
        max_send == get_max_send_amount(coins, txs, cached, M, measured)
        choices == select_coins(coins, txs, payment_sum)
        checked == IF ignore THEN {} ELSE {"get_max_send_amount"}
        cost == IF ignore THEN cached ELSE max_send.cost_of_single_tx
    IN  IF ~lengths_match(Len(amounts), n_puzzle_hashes, memos)
        THEN [outcome |-> "invalid_input", steps |-> {}, cost_of_single_tx |-> cached,
              choices |-> {}, max_send |-> max_send.amount]
        ELSE IF exceeds_max_send(payment_sum, max_send.amount, ignore)
        THEN [outcome |-> "over_max_send", steps |-> checked, cost_of_single_tx |-> cost,
              choices |-> {}, max_send |-> max_send.amount]
        ELSE IF choices = {}
        THEN [outcome |-> "insufficient", steps |-> checked \cup {"select_coins"},
              cost_of_single_tx |-> cost, choices |-> {}, max_send |-> max_send.amount]
        ELSE [outcome |-> "built",
              steps |-> checked \cup {"select_coins", "generate_unsigned_spendbundle", "sign"},
              cost_of_single_tx |-> cost, choices |-> choices, max_send |-> max_send.amount]

NoGstCall ==
    [op |-> "none", amounts |-> <<>>, n_puzzle_hashes |-> 0, memos |-> NoMemos,
     ignore_max_send_amount |-> FALSE, outcome |-> "none", steps |-> {},
     records |-> 0, pre_cost |-> NoCost, max_send |-> 0]

NoMsCall == [op |-> "none", amount |-> 0]

CatInit ==
    /\ coin_store = {}
    /\ tx_store = {}
    /\ cost_of_single_tx = NoCost
    /\ MAX_BLOCK_COST_CLVM \in 1..MaxBlockCost
    /\ lock = 0
    /\ txPc = [t \in Tasks |-> "idle"]
    /\ txSel = [t \in Tasks |-> {}]
    /\ msCall = NoMsCall
    /\ gstCall = NoGstCall

CatIdle ==
    /\ coin_store = {}
    /\ tx_store = {}
    /\ cost_of_single_tx = NoCost
    /\ MAX_BLOCK_COST_CLVM = MaxBlockCost
    /\ lock = 0
    /\ txPc = [t \in Tasks |-> "idle"]
    /\ txSel = [t \in Tasks |-> {}]
    /\ msCall = NoMsCall
    /\ gstCall = NoGstCall

\* lines 350-369: the wallet is told of a new coin of its own and stores its
\* lineage proof
CoinAdded ==
    /\ msCall = NoMsCall
    /\ gstCall = NoGstCall
    /\ Cardinality(coin_store) < MaxCoins
    /\ \E a \in 1..MaxAmount :
          coin_store' = coin_store \cup {Coin(Cardinality(coin_store) + 1, a)}
    /\ UNCHANGED <<tx_store, cost_of_single_tx, MAX_BLOCK_COST_CLVM, lock, txPc, txSel, msCall, gstCall>>
    /\ UNCHANGED notCat

\* lines 294-328, called on its own
GetMaxSendAmount ==
    /\ msCall = NoMsCall
    /\ \E measured \in 1..MaxCost :
          LET r == get_max_send_amount(coin_store, tx_store, cost_of_single_tx,
                                       MAX_BLOCK_COST_CLVM, measured)
          IN  /\ msCall' = [op |-> "get_max_send_amount", amount |-> r.amount]
              /\ cost_of_single_tx' = r.cost_of_single_tx
    /\ UNCHANGED <<coin_store, tx_store, MAX_BLOCK_COST_CLVM, lock, txPc, txSel, gstCall>>
    /\ UNCHANGED notCat

\* the caller has the amount; the next call may come
MaxSendCallerDone ==
    /\ msCall /= NoMsCall
    /\ msCall' = NoMsCall
    /\ UNCHANGED <<coin_store, tx_store, cost_of_single_tx, MAX_BLOCK_COST_CLVM, lock, txPc,
                   txSel, gstCall>>
    /\ UNCHANGED notCat

\* the lengths of the lists a caller passes
ListLengths == {1, 2}
\* the arguments of one call: amounts, len(puzzle_hashes), memos, the bypass flag
PaymentAmounts == {1, 3}
GstAmounts == {s \in SeqsUpTo(PaymentAmounts, 2) : Len(s) \in ListLengths}
GstMemos == {NoMemos} \cup {SomeMemos(n) : n \in ListLengths}

\* lines 803-895: one call of generate_signed_transaction followed from its
\* arguments to the exception or the records it returns. What the wallet
\* keeps of it is the cost cache get_max_send_amount fills; the coin store
\* and the transaction store are not written.
GenerateSignedTransactionCalled ==
    /\ gstCall = NoGstCall
    /\ msCall = NoMsCall
    /\ \E amounts \in GstAmounts, n_puzzle_hashes \in ListLengths, memos \in GstMemos,
          ignore_max_send_amount \in BOOLEAN, measured \in 1..MaxCost :
          LET r == generate_signed_transaction(amounts, n_puzzle_hashes, memos,
                                               ignore_max_send_amount, coin_store, tx_store,
                                               cost_of_single_tx, MAX_BLOCK_COST_CLVM, measured)
          IN  /\ cost_of_single_tx' = r.cost_of_single_tx
              /\ gstCall' = [op |-> "generate_signed_transaction", amounts |-> amounts,
                                n_puzzle_hashes |-> n_puzzle_hashes, memos |-> memos,
                                ignore_max_send_amount |-> ignore_max_send_amount,
                                outcome |-> r.outcome, steps |-> r.steps,
                                records |-> IF r.outcome = "built" THEN 1 ELSE 0,
                                pre_cost |-> cost_of_single_tx, max_send |-> r.max_send]
    /\ UNCHANGED <<coin_store, tx_store, MAX_BLOCK_COST_CLVM, lock, txPc, txSel, msCall>>
    /\ UNCHANGED notCat

\* the caller has the records or the exception; the next call may come
GstCallerDone ==
    /\ gstCall /= NoGstCall
    /\ gstCall' = NoGstCall
    /\ UNCHANGED <<coin_store, tx_store, cost_of_single_tx, MAX_BLOCK_COST_CLVM, lock, txPc,
                   txSel, msCall>>
    /\ UNCHANGED notCat

\* the lock is free to take
lock_is_free(l) == l = 0
\* leaving `async with wallet_state_manager.lock`, if task t entered one
released(l, t) == IF l = t THEN 0 ELSE l

\* test_dao_wallets.py lines 188-189: a caller that constructs its
\* transaction inside `async with wallet_state_manager.lock`
CallerTakesLock(t) ==
    /\ txPc[t] = "idle"
    /\ lock_is_free(lock)
    /\ lock' = t
    /\ txPc' = [txPc EXCEPT ![t] = "calling"]
    /\ UNCHANGED <<coin_store, tx_store, cost_of_single_tx, MAX_BLOCK_COST_CLVM, txSel, msCall, gstCall>>
    /\ UNCHANGED notCat

\* test_dao_wallets.py lines 212-213: a caller that constructs and records
\* its transaction without the lock
CallerSkipsLock(t) ==
    /\ txPc[t] = "idle"
    /\ txPc' = [txPc EXCEPT ![t] = "calling"]
    /\ UNCHANGED <<coin_store, tx_store, cost_of_single_tx, MAX_BLOCK_COST_CLVM, lock, txSel,
                   msCall, gstCall>>
    /\ UNCHANGED notCat

\* lines 803-895 with the defaults (fee 0, coins None, ignore_max_send_amount
\* False, memos None): the max-send check of lines 835-838, select_coins from
\* generate_unsigned_spendbundle (line 666), sign, and the records returned.
\* Neither this method nor select_coins takes the lock or records anything.
GenerateSignedTransaction(t) ==
    /\ txPc[t] = "calling"
    /\ \E payment_sum \in 1..(2 * MaxAmount), measured \in 1..MaxCost :
          LET r == generate_signed_transaction(<<payment_sum>>, 1, NoMemos, FALSE, coin_store,
                                               tx_store, cost_of_single_tx,
                                               MAX_BLOCK_COST_CLVM, measured)
          IN  /\ cost_of_single_tx' = r.cost_of_single_tx
              /\ IF r.outcome /= "built"
                 THEN \* ValueError: the caller's block is left
                      /\ txPc' = [txPc EXCEPT ![t] = "idle"]
                      /\ lock' = released(lock, t)
                      /\ UNCHANGED txSel
                 ELSE /\ \E cat_coins \in r.choices : txSel' = [txSel EXCEPT ![t] = cat_coins]
                      /\ txPc' = [txPc EXCEPT ![t] = "built"]
                      /\ UNCHANGED lock
    /\ UNCHANGED <<coin_store, tx_store, MAX_BLOCK_COST_CLVM, msCall, gstCall>>
    /\ UNCHANGED notCat

\* wallet_state_manager.add_pending_transaction(txs[0]) by the caller
\* (test_dao_wallets.py line 213), which then leaves its block
AddPendingTransaction(t) ==
    /\ txPc[t] = "built"
    /\ tx_store' = tx_store \cup {[by |-> t, removals |-> txSel[t]]}
    /\ txSel' = [txSel EXCEPT ![t] = {}]
    /\ txPc' = [txPc EXCEPT ![t] = "idle"]
    /\ lock' = released(lock, t)
    /\ UNCHANGED <<coin_store, cost_of_single_tx, MAX_BLOCK_COST_CLVM, msCall, gstCall>>
    /\ UNCHANGED notCat

(***************************************************************************)
(* get_or_create_wallet_for_cat run by the tasks of one wallet process     *)
(* (cat_wallet.py lines 191-226): a call is suspended at each await, and   *)
(* the other tasks run meanwhile.                                          *)
(***************************************************************************)

NoGcCall == [pc |-> "idle", asset |-> <<>>, wallet |-> 0, locked |-> FALSE]

GcIdle ==
    /\ gcCall = [t \in Tasks |-> NoGcCall]
    /\ gcLock = 0
    /\ gcSkipped = FALSE

\* the calls that have passed the lookup and not yet taken a wallet id
AwaitingCreateWallet == {t \in Tasks : gcCall[t].pc = "create_wallet"}

\* a caller makes its call inside `async with wallet_state_manager.lock`
GcCallerTakesLock(t) ==
    /\ gcCall[t].pc = "idle"
    /\ gcLock = 0
    /\ gcLock' = t
    /\ gcCall' = [gcCall EXCEPT ![t] = [NoGcCall EXCEPT !.pc = "called", !.locked = TRUE]]
    /\ UNCHANGED gcSkipped
    /\ UNCHANGED regVars
    /\ UNCHANGED notRegGc

\* a caller makes its call without the lock (create_from_puzzle_info, line
\* 236, takes none)
GcCallerSkipsLock(t) ==
    /\ gcCall[t].pc = "idle"
    /\ gcCall' = [gcCall EXCEPT ![t] = [NoGcCall EXCEPT !.pc = "called"]]
    /\ gcSkipped' = TRUE
    /\ UNCHANGED gcLock
    /\ UNCHANGED regVars
    /\ UNCHANGED notRegGc

\* lines 198-221, up to the first await: the id is normalised and the
\* registered wallets are searched
GcLookup(t) ==
    /\ gcCall[t].pc = "called"
    /\ \E h \in HexInputs :
          IF ~WellFormed(h)
          THEN gcCall' = [gcCall EXCEPT ![t].pc = "raised"]
          ELSE IF CatWalletsFor(wallets, normalize(h)) /= {}
          THEN gcCall' = [gcCall EXCEPT
                             ![t].pc = "returned",
                             ![t].asset = normalize(h),
                             ![t].wallet = FirstCatWalletFor(wallets, normalize(h)).id]
          ELSE /\ next_wallet_id + Cardinality(AwaitingCreateWallet) <= MaxWallets + 1
               /\ gcCall' = [gcCall EXCEPT ![t].pc = "create_wallet",
                                           ![t].asset = normalize(h)]
    /\ UNCHANGED <<gcLock, gcSkipped>>
    /\ UNCHANGED regVars
    /\ UNCHANGED notRegGc

\* line 222: `await user_store.create_wallet(...)` writes the row
GcCreateWallet(t) ==
    /\ gcCall[t].pc = "create_wallet"
    /\ LET a == gcCall[t].asset
           name == IF a \in DEFAULT_CATS THEN DefaultCatName(a)
                   ELSE default_wallet_name_for_unknown_cat(a)
       IN  user_store' = create_wallet(user_store, next_wallet_id, name,
                                       info_as_string(FromHex(a)))
    /\ next_wallet_id' = next_wallet_id + 1
    /\ gcCall' = [gcCall EXCEPT ![t].pc = "lineage_store", ![t].wallet = next_wallet_id]
    /\ UNCHANGED <<wallets, lineage_stores, tx_queue, std_balance, wCall>>
    /\ UNCHANGED <<gcLock, gcSkipped>>
    /\ UNCHANGED notRegGc

\* line 224: `await CATLineageStore.create(...)`
GcCreateLineageStore(t) ==
    /\ gcCall[t].pc = "lineage_store"
    /\ lineage_stores' = Append(lineage_stores, gcCall[t].asset)
    /\ gcCall' = [gcCall EXCEPT ![t].pc = "add_new_wallet"]
    /\ UNCHANGED <<user_store, next_wallet_id, wallets, tx_queue, std_balance, wCall>>
    /\ UNCHANGED <<gcLock, gcSkipped>>
    /\ UNCHANGED notRegGc

\* line 225: `await wallet_state_manager.add_new_wallet(self)` registers the
\* wallet; the call returns it
GcAddNewWallet(t) ==
    /\ gcCall[t].pc = "add_new_wallet"
    /\ wallets' = wallets \cup {[id |-> gcCall[t].wallet, type |-> "CAT",
                                 asset |-> FromHex(gcCall[t].asset)]}
    /\ gcCall' = [gcCall EXCEPT ![t].pc = "returned"]
    /\ UNCHANGED <<user_store, next_wallet_id, lineage_stores, tx_queue, std_balance, wCall>>
    /\ UNCHANGED <<gcLock, gcSkipped>>
    /\ UNCHANGED notRegGc

\* the caller has its wallet (or the error) and leaves the lock if it holds it
GcCallerDone(t) ==
    /\ gcCall[t].pc \in {"returned", "raised"}
    /\ gcCall' = [gcCall EXCEPT ![t] = NoGcCall]
    /\ gcLock' = IF gcCall[t].locked THEN 0 ELSE gcLock
    /\ UNCHANGED gcSkipped
    /\ UNCHANGED regVars
    /\ UNCHANGED notRegGc

(***************************************************************************)
(* CATWallet.select_coins_from_spend_descriptions                          *)
(***************************************************************************)
\* the most coin spends in the bundle in progress
MaxPrevActions == 2

\* asset ids (TAIL hashes)
Tails == {"tail_a", "tail_b"}

\* CREATE_COIN (51) conditions of a spend's inner puzzle: the amount, and
\* whether the coin created is spent again in the same bundle
CreateCoin(a, e) == [amount |-> a, ephemeral |-> e]
ConditionLists ==
    { <<CreateCoin(1, FALSE)>>,
      <<CreateCoin(2, FALSE)>>,
      <<CreateCoin(1, FALSE), CreateCoin(2, FALSE)>>,
      <<CreateCoin(1, TRUE)>>,
      <<CreateCoin(1, TRUE), CreateCoin(2, FALSE)>> }

\* A coin spend of the bundle: whether its puzzle is a CAT (line 965), the TAIL
\* hash curried into it (line 968) and the coins its inner puzzle creates.
PrevSpends ==
    [cat : {TRUE}, tail : Tails, conditions : ConditionLists]
    \cup [cat : {FALSE}, tail : {"tail_a"}, conditions : {<<CreateCoin(1, FALSE)>>}]

\* Solver values for an amount: a decimal string or a hex byte string
Amount(enc, n) == [enc |-> enc, n |-> n]
\* cast_to_int
cast_to_int(v) == v.n
\* str(remaining_balance)
str(n) == Amount("decimal", n)

\* coin_spec: the key that names the asset, the TAIL it names, the amount
CoinSpec(form, tail, amount) == [form |-> form, tail |-> tail, amount |-> amount]
CoinSpecForms == {"asset_id", "asset_description", "asset_types", "other"}
TargetAmounts == {0, 1, 2, 4}
CoinSpecs ==
    {CoinSpec(f, t, Amount(e, n)) :
        f \in CoinSpecForms, t \in Tails, e \in {"decimal", "hex"}, n \in TargetAmounts}
\* Optional[Solver]
NoSolver == CoinSpec("none", "none", Amount("none", 0))

\* lines 957-960: coins created and not consumed in the bundle have this
\* spend as their parent
is_parent_spend(cs) == \E j \in DOMAIN cs.conditions : ~cs.conditions[j].ephemeral

\* A variant that takes the spends of every CAT, whatever its TAIL.
matches_any_cat(cs, expected_tail) == cs.cat

\* lines 965-968: the puzzle is a CAT and its TAIL hash is the expected one
matches_expected_tail(cs, expected_tail) == cs.cat /\ cs.tail = expected_tail

SelectedAmount(selected_coins) ==
    SumSeq([k \in DOMAIN selected_coins |-> selected_coins[k].amount])

\* A variant that never stops early.
target_never_reached(selected_coins, target_amount) == FALSE

\* lines 1005 and 1008: `sum(c.coin.amount for c in selected_coins) >= target_amount`
target_reached(selected_coins, target_amount) ==
    SelectedAmount(selected_coins) >= target_amount

\* lines 976-1006: one coin per CREATE_COIN condition, until the target is
\* reached (the break of lines 1005-1006)
RECURSIVE select_from_conditions(_, _, _, _)
select_from_conditions(conditions, parent, target_amount, selected_coins) ==
    IF conditions = <<>> THEN selected_coins
    ELSE LET sel == Append(selected_coins,
                           [parent |-> parent, amount |-> Head(conditions).amount])
         IN  IF target_reached(sel, target_amount) THEN sel
             ELSE select_from_conditions(Tail(conditions), parent, target_amount, sel)

\* lines 964-1009: the loop over the parent spends; i is the spend's place in
\* previous_actions
RECURSIVE select_from_spends(_, _, _, _, _)
select_from_spends(spends, i, expected_tail, target_amount, selected_coins) ==
    IF i > Len(spends) THEN selected_coins
    ELSE IF ~is_parent_spend(spends[i])
    THEN select_from_spends(spends, i + 1, expected_tail, target_amount, selected_coins)
    ELSE LET sel == IF matches_expected_tail(spends[i], expected_tail)
                    THEN select_from_conditions(spends[i].conditions, i, target_amount,
                                                selected_coins)
                    ELSE selected_coins
         IN  IF target_reached(sel, target_amount) /\ Len(sel) > 0 THEN sel
             ELSE select_from_spends(spends, i + 1, expected_tail, target_amount, sel)

\* lines 943-1019
select_coins_from_spend_descriptions(coin_spec, spends) ==
    IF coin_spec.form \notin {"asset_id", "asset_description", "asset_types"}
    THEN [selected_coins |-> <<>>, coin_spec |-> coin_spec]
    ELSE LET target_amount == cast_to_int(coin_spec.amount)
             expected_tail == coin_spec.tail
             selected_coins == select_from_spends(spends, 1, expected_tail, target_amount, <<>>)
             remaining_balance == target_amount - SelectedAmount(selected_coins)
         IN  [selected_coins |-> selected_coins,
              coin_spec |-> IF remaining_balance > 0
                            THEN CoinSpec("asset_id", expected_tail, str(remaining_balance))
                            ELSE NoSolver]

NoSdCall == [op |-> "none", coin_spec |-> NoSolver, selected_coins |-> <<>>, returned |-> NoSolver]

SdIdle ==
    /\ previous_actions = <<>>
    /\ sdCall = NoSdCall

\* a driver adds a coin spend to the bundle in progress
SpendAdded ==
    /\ sdCall = NoSdCall
    /\ Len(previous_actions) < MaxPrevActions
    /\ \E cs \in PrevSpends : previous_actions' = Append(previous_actions, cs)
    /\ UNCHANGED sdCall
    /\ UNCHANGED notSd

SelectCoinsFromSpendDescriptions ==
    /\ sdCall = NoSdCall
    /\ \E coin_spec \in CoinSpecs :
          LET r == select_coins_from_spend_descriptions(coin_spec, previous_actions)
          IN  sdCall' = [op |-> "select_coins_from_spend_descriptions", coin_spec |-> coin_spec,
                         selected_coins |-> r.selected_coins, returned |-> r.coin_spec]
    /\ UNCHANGED previous_actions
    /\ UNCHANGED notSd

\* the caller has the selection; the next call may come
SdCallerDone ==
    /\ sdCall /= NoSdCall
    /\ sdCall' = NoSdCall
    /\ UNCHANGED previous_actions
    /\ UNCHANGED notSd

SdNext ==
    \/ SpendAdded
    \/ SelectCoinsFromSpendDescriptions
    \/ SdCallerDone

(***************************************************************************)
(* rpc_state, the polling helper of the DAO wallet tests                   *)
(***************************************************************************)
\* the largest scaled timeout, and the longest a poll takes, in tenths
MaxTimeout == 4
MaxPollTime == 1
\* line 65: asyncio.sleep(0.3), in tenths
SleepTenths == 3
\* the clock is followed up to here; later readings are all past the timeout
ClockEnd == MaxTimeout + SleepTenths + MaxPollTime
Later(elapsed, d) == IF elapsed + d > ClockEnd THEN ClockEnd ELSE elapsed + d

\* what one pass of lines 46-55 can come to: the condition holds, does not
\* hold, raises IndexError, or something else is raised (by async_function,
\* by the assert of line 47 or by condition_func)
PollOutcomes == {"satisfied", "unsatisfied", "index_error", "error"}

RsIdle ==
    /\ rsTimeout = 0
    /\ rsElapsed = 0
    /\ rsPc = "idle"
    /\ rsLast = "none"
    /\ rsPolls = 0

\* lines 32-43
RpcStateCalled ==
    /\ rsPc = "idle"
    /\ rsTimeout' \in 1..MaxTimeout
    /\ rsElapsed' = 0
    /\ rsPc' = "poll"
    /\ rsLast' = "none"
    /\ rsPolls' = 0
    /\ UNCHANGED notRs

\* lines 57-62: the timeout test after a poll that did not satisfy
timeout_reached(elapsed, timeout) == elapsed >= timeout

\* lines 45-63, one pass of the loop up to its next suspension: the poll
\* takes d tenths; `continue` (line 55) goes straight to the next poll
Poll ==
    /\ rsPc = "poll"
    /\ \E d \in 0..MaxPollTime, outcome \in PollOutcomes :
          /\ rsElapsed' = Later(rsElapsed, d)
          /\ rsLast' = outcome
          /\ rsPolls' = (rsPolls + 1) % 2
          /\ rsPc' = CASE outcome = "satisfied" -> "returned"
                       [] outcome = "error" -> "raised"
                       [] outcome = "index_error" -> "poll"
                       [] outcome = "unsatisfied" ->
                            IF timeout_reached(Later(rsElapsed, d), rsTimeout)
                            THEN "timed_out" ELSE "sleep"
    /\ UNCHANGED rsTimeout
    /\ UNCHANGED notRs

\* line 65: await asyncio.sleep(0.3)
Sleep ==
    /\ rsPc = "sleep"
    /\ rsElapsed' = Later(rsElapsed, SleepTenths)
    /\ rsPc' = "poll"
    /\ UNCHANGED <<rsTimeout, rsLast, rsPolls>>
    /\ UNCHANGED notRs

\* the test has the response or the failure; it may poll for something else
RsCallerDone ==
    /\ rsPc \in {"returned", "timed_out", "raised"}
    /\ rsPc' = "idle"
    /\ rsTimeout' = 0
    /\ rsElapsed' = 0
    /\ rsLast' = "none"
    /\ rsPolls' = 0
    /\ UNCHANGED notRs

RsNext ==
    \/ RpcStateCalled
    \/ Poll
    \/ Sleep
    \/ RsCallerDone

(***************************************************************************)
(* CoinInfo.alias_actions                                                  *)
(***************************************************************************)
\* the most aliases one table holds, and the most actions in one call
MaxAliases == 1
MaxAliasActions == 2

\* WalletAction: its name() and what else it carries
WalletActionNames == {"condition", "direct_payment"}
WalletActions == [name : WalletActionNames, arg : {"x", "y"}]

\* ActionAlias classes: the action name they stand for, and the actions
\* their from_action converts without raising
AliasClasses == [action_name : WalletActionNames, accepts : {{"x"}, {"x", "y"}}]

\* alias.name() of the k-th alias of table t
AliasName(t, k) ==
    [default |-> <<"default_1", "default_2", "default_3">>,
     inner |-> <<"inner_1", "inner_2", "inner_3">>,
     outer |-> <<"outer_1", "outer_2", "outer_3">>][t][k]
AliasTables == SeqsUpTo(AliasClasses, MaxAliases)
Aliases(t, classes) ==
    [k \in DOMAIN classes |->
        [alias |-> AliasName(t, k), action_name |-> classes[k].action_name,
         accepts |-> classes[k].accepts]]

\* A variant that lists the outer driver's aliases first.
action_aliases_outer_first(default, inner, outer) ==
    Aliases("outer", outer) \o Aliases("inner", inner) \o Aliases("default", default)

\* lines 42-46
action_aliases_list(default, inner, outer) ==
    Aliases("default", default) \o Aliases("inner", inner) \o Aliases("outer", outer)

\* lines 48-51: action name -> the aliases that stand for it, in list order
action_to_potential_alias(aliases) ==
    [n \in {aliases[k].action_name : k \in DOMAIN aliases} |->
        SelectSeq(aliases, LAMBDA a : a.action_name = n)]

\* alias.from_action(action): the alias instance, or an exception
from_action_raises(alias, action) == action.arg \notin alias.accepts
from_action(alias, action) == [name |-> alias.alias, arg |-> action.arg]

\* lines 55-59: the first candidate whose from_action does not raise
RECURSIVE first_alias(_, _)
first_alias(candidates, action) ==
    IF candidates = <<>> THEN action
    ELSE IF from_action_raises(Head(candidates), action)
    THEN first_alias(Tail(candidates), action)
    ELSE from_action(Head(candidates), action)

\* lines 53-61
alias_action(table, action) ==
    IF action.name \in DOMAIN table THEN first_alias(table[action.name], action) ELSE action

\* lines 39-63; the map object, taken as the list it yields
alias_actions(actions, default, inner, outer) ==
    LET table == action_to_potential_alias(action_aliases_list(default, inner, outer))
    IN  [i \in DOMAIN actions |-> alias_action(table, actions[i])]

NoAlCall == [op |-> "none", actions |-> <<>>, result |-> <<>>]

AlIdle ==
    /\ alDefault = <<>>
    /\ alInner = <<>>
    /\ alOuter = <<>>
    /\ alCall = NoAlCall

\* a CoinInfo whose drivers, and whose caller, bring some aliases
AlInit ==
    /\ alDefault \in AliasTables
    /\ alInner \in AliasTables
    /\ alOuter \in AliasTables
    /\ alCall = NoAlCall

AliasActions ==
    /\ alCall = NoAlCall
    /\ \E actions \in SeqsUpTo(WalletActions, MaxAliasActions) :
          alCall' = [op |-> "alias_actions", actions |-> actions,
                     result |-> alias_actions(actions, alDefault, alInner, alOuter)]
    /\ UNCHANGED <<alDefault, alInner, alOuter>>
    /\ UNCHANGED notAl

\* the caller has consumed the map; the next call may come
AlCallerDone ==
    /\ alCall /= NoAlCall
    /\ alCall' = NoAlCall
    /\ UNCHANGED <<alDefault, alInner, alOuter>>
    /\ UNCHANGED notAl

AlNext ==
    \/ AliasActions
    \/ AlCallerDone

(***************************************************************************)
(* The confirmed balance of one CAT wallet: the unspent coin records of    *)
(* the wallet in the coin store and the wallet's lineage store             *)
(* (cat_wallet.py, get_confirmed_balance, coin_added,                      *)
(* puzzle_solution_received).  A lineage proof is stored under the name of *)
(* the coin it describes and looked up under the parent id of a coin.      *)
(***************************************************************************)

MaxRecords == 3

\* ids of parent coins the wallet keeps no record of
ExternalParents == {101, 102}
RecordAmounts == {1, 2}

NoLineage == [none |-> TRUE]
SomeLineage == [none |-> FALSE]

\* the wallets whose coins the coin store holds; self.id() is the first
LnWalletIds == {"cat_wallet", "other_wallet"}
self_id == "cat_wallet"

WalletCoinRecord(name, parent_coin_info, amount, spent, wallet_id) ==
    [name |-> name, parent_coin_info |-> parent_coin_info, amount |-> amount, spent |-> spent,
     wallet_id |-> wallet_id]

LineageProof(parent_name, inner_puzzle_hash, amount) ==
    [parent_name |-> parent_name, inner_puzzle_hash |-> inner_puzzle_hash, amount |-> amount]

\* LineageProof() of a legacy wallet's migrated list (lines 265-266), and
\* LineageProof.is_none()
NoneProof == LineageProof(0, "none", 0)
is_none(proof) == proof.inner_puzzle_hash = "none"

\* the tree hash of the inner puzzle of the coin with this name
inner_puzzle_hash_of(name) == IF name % 2 = 0 THEN "inner_puzzle_even" ELSE "inner_puzzle_odd"

\* the coin the peer reports for a parent id (lines 362-366): a coin of the
\* coin store as recorded, any other with the amount the peer gives
parent_coin_of(records, parent, amount) ==
    IF \E r \in records : r.name = parent
    THEN LET r == CHOOSE x \in records : x.name = parent
         IN  [name |-> parent, parent_coin_info |-> r.parent_coin_info, amount |-> r.amount]
    ELSE [name |-> parent, parent_coin_info |-> parent + 100, amount |-> amount]

RECURSIVE SumRecordAmounts(_)
SumRecordAmounts(S) ==
    IF S = {} THEN 0
    ELSE LET r == CHOOSE x \in S : TRUE IN r.amount + SumRecordAmounts(S \ {r})

\* line 280: coin_store.get_unspent_coins_for_wallet(self.id())
get_unspent_coins_for_wallet(records) == {r \in records : ~r.spent /\ r.wallet_id = self_id}

\* add_lineage(name, lineage): the entry of the name is written or replaced
add_lineage(store, name, lineage) ==
    {e \in store : e.coin_id /= name} \cup {[coin_id |-> name, proof |-> lineage]}

\* remove_lineage(name)
remove_lineage(store, names) == {e \in store : e.coin_id \notin names}

\* the coin ids the lineage store has a proof for
proven(store) == {e.coin_id : e \in store}

\* lines 555-556: lineage_store.get_lineage_proof(coin.parent_coin_info)
get_lineage_proof_for_coin(store, coin) ==
    IF coin.parent_coin_info \in proven(store) THEN SomeLineage ELSE NoLineage

\* A variant that counts every unspent coin.
get_confirmed_balance_all_unspent(records, store) ==
    SumRecordAmounts(get_unspent_coins_for_wallet(records))

\* lines 278-289 with record_list None
get_confirmed_balance(records, store) ==
    SumRecordAmounts({record \in get_unspent_coins_for_wallet(records) :
                         get_lineage_proof_for_coin(store, record) /= NoLineage})

\* the proof stored under a coin id that has one
lineage_proof_of(store, id) == (CHOOSE e \in store : e.coin_id = id).proof

\* A variant that takes every unspent coin no transaction removes.
cat_spendable_records_unproven(records, store, removals) ==
    {r \in get_unspent_coins_for_wallet(records) : r.name \notin removals}

\* lines 460-472 on the records of the coin store: the unspent coins of the
\* wallet that no unconfirmed transaction removes and whose lineage proof is
\* there and is not LineageProof()
cat_spendable_records(records, store, removals) ==
    {r \in get_unspent_coins_for_wallet(records) :
        /\ r.name \notin removals
        /\ get_lineage_proof_for_coin(store, r) /= NoLineage
        /\ ~is_none(lineage_proof_of(store, r.parent_coin_info))}

\* what fetching and parsing the parent's spend comes to (lines 361-369)
Backfills == {"error", "cat_parent", "not_cat_parent"}

\* A variant that lets the error of the backfill out of coin_added.
backfill_error_raised(backfill) == backfill = "error"

\* lines 368-369: `except Exception` logs the error and drops it
backfill_error_reraised(backfill) == FALSE

\* A variant that scrubs the children of every wallet.
belongs_to_any(record) == TRUE

\* line 388: record.wallet_id == self.id()
belongs_to_self(record) == record.wallet_id = self_id

\* lines 371-392 for the spend of parent_coin: a CAT parent gets its lineage
\* proof stored; the children of any other parent that are this wallet's are
\* scrubbed from the coin store, the lineage store and the transaction store
puzzle_solution_received(records, store, txs, parent_coin, is_cat) ==
    IF is_cat
    THEN [coin_records |-> records,
          lineage_store |-> add_lineage(store, parent_coin.name,
                                        LineageProof(parent_coin.parent_coin_info,
                                                     inner_puzzle_hash_of(parent_coin.name),
                                                     parent_coin.amount)),
          tx_records |-> txs]
    ELSE LET child_coin_records == {r \in records : r.parent_coin_info = parent_coin.name}
             scrubbed == {r \in child_coin_records : belongs_to_self(r)}
         IN  [coin_records |-> records \ scrubbed,
              lineage_store |-> remove_lineage(store, {r.name : r \in scrubbed}),
              tx_records |-> txs \ {r.name : r \in scrubbed}]

\* lines 350-369: the coin's own proof is stored, then the parent's is
\* looked up and, if missing, fetched from the peer; an exception on the way
\* is logged and dropped
coin_added(records, store, txs, coin, backfill, parent_amount) ==
    LET with_own == add_lineage(store, coin.name,
                                LineageProof(coin.parent_coin_info,
                                             inner_puzzle_hash_of(coin.name), coin.amount))
    IN  IF get_lineage_proof_for_coin(with_own, coin) /= NoLineage \/ backfill = "error"
        THEN [coin_records |-> records, lineage_store |-> with_own, tx_records |-> txs,
              fetched |-> FALSE,
              raised |-> get_lineage_proof_for_coin(with_own, coin) = NoLineage
                            /\ backfill_error_reraised(backfill)]
        ELSE puzzle_solution_received(records, with_own, txs,
                                      parent_coin_of(records, coin.parent_coin_info,
                                                     parent_amount),
                                      backfill = "cat_parent")
                @@ [fetched |-> TRUE, raised |-> FALSE]

NoCbCall == [op |-> "none", amount |-> 0, spendable |-> 0, max_send |-> 0,
             spendable_coins |-> 0]
NoCaCall == [called |-> FALSE, coin |-> WalletCoinRecord(0, 0, 0, FALSE, "none"),
             backfill |-> "none", lineage_known |-> FALSE, raised |-> FALSE]
NoPsCall == [called |-> FALSE, is_cat |-> FALSE, parent_coin |-> parent_coin_of({}, 0, 0),
             coin_records |-> {}, lineage_store |-> {}, tx_records |-> {}]

LnIdle ==
    /\ coin_records = {}
    /\ lineage_store = {}
    /\ tx_records = {}
    /\ cbCall = NoCbCall
    /\ psCall = NoPsCall
    /\ caCall = NoCaCall

\* a name for the next coin record
FreshNames == {n \in 1..MaxRecords : \A r \in coin_records : r.name /= n}

\* the wallet state manager records a coin of this wallet as unspent, with
\* a transaction record under the coin's id, and notifies the wallet
\* (coin_added); the coin's parent is a coin outside the wallet or a spent
\* coin of the wallet
LnCoinAdded ==
    /\ cbCall = NoCbCall /\ psCall = NoPsCall /\ caCall = NoCaCall
    /\ FreshNames /= {}
    /\ \E parent \in ExternalParents \cup {r.name : r \in {x \in coin_records : x.spent}},
          amount \in RecordAmounts, backfill \in Backfills :
          LET name == CHOOSE n \in FreshNames : \A m \in FreshNames : n <= m
              coin == WalletCoinRecord(name, parent, amount, FALSE, self_id)
              with_coin == coin_records \cup {coin}
              with_tx == tx_records \cup {name}
              with_own == add_lineage(lineage_store, name,
                                      LineageProof(parent, inner_puzzle_hash_of(name), amount))
              r == coin_added(with_coin, lineage_store, with_tx, coin, backfill, amount)
          IN  /\ coin_records' = r.coin_records
              /\ lineage_store' = r.lineage_store
              /\ tx_records' = r.tx_records
              /\ psCall' = IF r.fetched
                           THEN [called |-> TRUE, is_cat |-> backfill = "cat_parent",
                                 parent_coin |-> parent_coin_of(with_coin, parent, amount),
                                 coin_records |-> with_coin, lineage_store |-> with_own,
                                 tx_records |-> with_tx]
                           ELSE NoPsCall
              /\ caCall' = [called |-> TRUE, coin |-> coin, backfill |-> backfill,
                            lineage_known |-> get_lineage_proof_for_coin(with_own, coin)
                                                 /= NoLineage,
                            raised |-> r.raised]
    /\ UNCHANGED cbCall
    /\ UNCHANGED notLn

\* the wallet state manager records a coin of another wallet, with its
\* transaction record; this wallet is not notified
LnOtherWalletCoinAdded ==
    /\ cbCall = NoCbCall /\ psCall = NoPsCall /\ caCall = NoCaCall
    /\ FreshNames /= {}
    /\ \E parent \in ExternalParents :
          LET name == CHOOSE n \in FreshNames : \A m \in FreshNames : n <= m
          IN  /\ coin_records' = coin_records
                                    \cup {WalletCoinRecord(name, parent, 1, FALSE, "other_wallet")}
              /\ tx_records' = tx_records \cup {name}
    /\ UNCHANGED <<lineage_store, cbCall, psCall, caCall>>
    /\ UNCHANGED notLn

\* the wallet state manager marks a coin of the wallet as spent
LnCoinSpent ==
    /\ cbCall = NoCbCall /\ psCall = NoPsCall /\ caCall = NoCaCall
    /\ \E r \in get_unspent_coins_for_wallet(coin_records) :
          coin_records' = (coin_records \ {r})
                              \cup {WalletCoinRecord(r.name, r.parent_coin_info, r.amount, TRUE,
                                                     r.wallet_id)}
    /\ UNCHANGED <<lineage_store, tx_records, cbCall, psCall, caCall>>
    /\ UNCHANGED notLn

\* lines 278-289
GetConfirmedBalance ==
    /\ cbCall = NoCbCall /\ psCall = NoPsCall /\ caCall = NoCaCall
    /\ cbCall' = [NoCbCall EXCEPT !.op = "get_confirmed_balance",
                                  !.amount = get_confirmed_balance(coin_records, lineage_store)]
    /\ UNCHANGED <<coin_records, lineage_store, tx_records, psCall, caCall>>
    /\ UNCHANGED notLn

\* lines 261-266: a legacy wallet's list of lineage proofs is migrated; it
\* holds LineageProof() for a parent
LnLegacyLineageMigrated ==
    /\ cbCall = NoCbCall /\ psCall = NoPsCall /\ caCall = NoCaCall
    /\ \E parent \in ExternalParents \ proven(lineage_store) :
          lineage_store' = add_lineage(lineage_store, parent, NoneProof)
    /\ UNCHANGED <<coin_records, tx_records, cbCall, psCall, caCall>>
    /\ UNCHANGED notLn

\* get_confirmed_balance, get_spendable_balance and get_max_send_amount
\* (lines 278-328, 431-472) asked of one wallet state; removals are the coins
\* the unconfirmed transactions spend
GetBalances ==
    /\ cbCall = NoCbCall /\ psCall = NoPsCall /\ caCall = NoCaCall
    /\ \E removals \in SUBSET {r.name : r \in get_unspent_coins_for_wallet(coin_records)},
          measured \in 1..MaxCost, M \in 1..MaxBlockCost :
          LET spendable == cat_spendable_records(coin_records, lineage_store, removals)
          IN  cbCall' = [op |-> "balances",
                         amount |-> get_confirmed_balance(coin_records, lineage_store),
                         spendable |-> get_spendable_balance(spendable, {}),
                         max_send |-> get_max_send_amount(spendable, {}, NoCost, M,
                                                          measured).amount,
                         spendable_coins |-> Cardinality(spendable)]
    /\ UNCHANGED <<coin_records, lineage_store, tx_records, psCall, caCall>>
    /\ UNCHANGED notLn

\* the caller has the balance, or coin_added has returned; the next call
\* may come
CbCallerDone ==
    /\ cbCall /= NoCbCall \/ psCall /= NoPsCall \/ caCall /= NoCaCall
    /\ cbCall' = NoCbCall
    /\ psCall' = NoPsCall
    /\ caCall' = NoCaCall
    /\ UNCHANGED <<coin_records, lineage_store, tx_records>>
    /\ UNCHANGED notLn

(***************************************************************************)
(* setup_wallet_node and setup_full_node: one service under test from its  *)
(* construction to the release of its database file and keys               *)
(* (setup_services.py).  hnLog keeps what the constructor did, each entry  *)
(* with the state the service was in at that moment.                       *)
(***************************************************************************)

\* the runs of a test's body on the service
MaxBodySteps == 3

Harnesses == {"setup_wallet_node", "setup_full_node"}

Event(e, service) == [e |-> e, service |-> service]

\* db_path.unlink() under `if db_path.exists()` (lines 257-258, 290-291)
unlink_if_exists(file) == IF file.exists THEN NoFile ELSE file
unlink_event(file, service) == IF file.exists THEN <<Event("unlink", service)>> ELSE <<>>

\* the node has opened its database at db_path
opened(file) == [file EXCEPT !.exists = TRUE, !.other = TRUE]

\* A variant that goes on without waiting for the shutdown.
wait_closed_not_awaited(service) == TRUE

\* line 289, line 112: `await service.wait_closed()` returns once the service
\* has shut down
wait_closed_returns(service) == service = "closed"

HnIdle ==
    /\ hnKind = "none"
    /\ hnPc = "idle"
    /\ hnService = "none"
    /\ hnDb = NoFile
    /\ hnKeys = 0
    /\ hnBody = 0
    /\ hnLog = <<>>

\* a file is at db_path before the constructor runs (an earlier run left it)
HnLeftoverFile ==
    /\ hnPc = "idle"
    /\ ~hnDb.exists
    /\ \E f \in Leftovers : hnDb' = f
    /\ UNCHANGED <<hnKind, hnPc, hnService, hnKeys, hnBody, hnLog>>
    /\ UNCHANGED notHn

\* lines 237-284: the throwaway keyring gets the wallet's key, a file left at
\* db_path is deleted, the service is created, and service.start() is awaited
SetupWalletNode ==
    /\ hnPc = "idle"
    /\ hnKind' = "setup_wallet_node"
    /\ hnKeys' = 1
    /\ hnDb' = unlink_if_exists(hnDb)
    /\ hnService' = "constructed"
    /\ hnLog' = unlink_event(hnDb, "none") \o <<Event("construct", "constructed")>>
    /\ hnPc' = "starting"
    /\ hnBody' = 0
    /\ UNCHANGED notHn

\* lines 127-147: dbp is entered, the node is prepared and its service
\* created, ms is entered and service.start() is awaited
SetupFullNode ==
    /\ hnPc = "idle"
    /\ hnKind' = "setup_full_node"
    /\ \E db_version \in DbVersions : hnDb' = dbp_enter(hnDb, db_version)
    /\ hnService' = "constructed"
    /\ hnLog' = unlink_event(hnDb, "none") \o <<Event("construct", "constructed")>>
    /\ hnPc' = "starting"
    /\ hnBody' = 0
    /\ UNCHANGED hnKeys
    /\ UNCHANGED notHn

\* service.start() completes (line 284, line 107): the node has opened its
\* database, and the service is yielded to the test (line 286, line 148)
ServiceStarted ==
    /\ hnPc = "starting"
    /\ hnService' = "started"
    /\ hnDb' = opened(hnDb)
    /\ hnLog' = hnLog \o <<Event("start", "started"), Event("yield", "started")>>
    /\ hnPc' = "yielded"
    /\ UNCHANGED <<hnKind, hnKeys, hnBody>>
    /\ UNCHANGED notHn

\* the test works with the service: the node writes its database; a wallet
\* test may add a key to the keyring
TestUsesService ==
    /\ hnPc = "yielded"
    /\ hnBody < MaxBodySteps
    /\ hnBody' = hnBody + 1
    /\ hnDb' = opened(hnDb)
    /\ \E added \in (IF hnKind = "setup_wallet_node" THEN {0, 1} ELSE {0}) :
          hnKeys' = hnKeys + added
    /\ UNCHANGED <<hnKind, hnPc, hnService, hnLog>>
    /\ UNCHANGED notHn

\* the test is over and the generator is resumed after its yield:
\* service.stop() (line 288, line 111), then wait_closed() is awaited
HnStop ==
    /\ hnPc = "yielded"
    /\ hnService' = "stopped"
    /\ hnLog' = hnLog \o <<Event("stop", "stopped")>>
    /\ hnPc' = "closing"
    /\ UNCHANGED <<hnKind, hnDb, hnKeys, hnBody>>
    /\ UNCHANGED notHn

\* A variant in which the code after the yield stands in a `finally`.
resumed_after_yield_finally(outcome) == TRUE

\* lines 100-101, 110-111: dbp and ms yield outside any try/finally, so the
\* statements after the yield run only when the guarded block returns; an
\* error thrown into the generator at the yield leaves it at once
resumed_after_yield(outcome) == outcome = "returned"

\* the guarded block exits with an error: the error is thrown into ms at its
\* yield (line 110) and then into dbp at its yield (line 100)
HnBodyRaises ==
    /\ hnPc = "yielded"
    /\ hnService' = IF resumed_after_yield("raised") THEN "stopped" ELSE hnService
    /\ hnLog' = hnLog \o <<Event("raise", hnService)>>
                    \o (IF resumed_after_yield("raised")
                        THEN <<Event("stop", "stopped")>> ELSE <<>>)
    /\ hnPc' = IF resumed_after_yield("raised") THEN "closing" ELSE "failed"
    /\ UNCHANGED <<hnKind, hnDb, hnKeys, hnBody>>
    /\ UNCHANGED notHn

\* the stopped service shuts down; the node may write its database a last
\* time on the way
ServiceShutsDown ==
    /\ hnService = "stopped"
    /\ hnService' = "closed"
    /\ \E flushed \in BOOLEAN : hnDb' = IF flushed THEN opened(hnDb) ELSE hnDb
    /\ UNCHANGED <<hnKind, hnPc, hnKeys, hnBody, hnLog>>
    /\ UNCHANGED notHn

\* wait_closed() returns and the rest of the constructor runs: in
\* setup_wallet_node the database file is deleted and the keys are purged
\* (lines 289-292); in setup_full_node ms is left and then dbp, which deletes
\* the file (lines 112, 101-102)
HnCleanup ==
    /\ hnPc = "closing"
    /\ wait_closed_returns(hnService)
    /\ hnDb' = IF hnKind = "setup_wallet_node" THEN unlink_if_exists(hnDb) ELSE dbp_exit(hnDb)
    /\ hnKeys' = IF hnKind = "setup_wallet_node" THEN 0 ELSE hnKeys
    /\ hnLog' = hnLog \o <<Event("wait_closed", hnService)>> \o unlink_event(hnDb, hnService)
                    \o (IF hnKind = "setup_wallet_node"
                        THEN <<Event("delete_all_keys", hnService)>> ELSE <<>>)
    /\ hnPc' = "done"
    /\ UNCHANGED <<hnKind, hnService, hnBody>>
    /\ UNCHANGED notHn

\* the next test sets up its own service at the same path
HnNextTest ==
    /\ hnPc = "done"
    /\ hnKind' = "none"
    /\ hnPc' = "idle"
    /\ hnService' = "none"
    /\ hnBody' = 0
    /\ hnLog' = <<>>
    /\ UNCHANGED <<hnDb, hnKeys>>
    /\ UNCHANGED notHn

(***************************************************************************)
(* The DAO voting tally, as the DAO wallet's contract describes it: a      *)
(* proposal is committed with an initial yes-vote, vote spends wait in the *)
(* mempool until a block confirms them, and every participant's wallet     *)
(* takes the proposals over when it syncs to the chain.                    *)
(***************************************************************************)

\* the vote spends a run confirms
MaxVotes == 2

DaoProposalIds == {"prop_0", "prop_1"}
DaoWallets == {"dao_wallet_0", "dao_wallet_1"}
VoteAmounts == {1, 2}

NoProposal == [exists |-> FALSE, amount_voted |-> 0, yes_votes |-> 0, initial |-> 0]
NoDaoSpend == [kind |-> "none", proposal_id |-> "", vote_amount |-> 0, is_yes_vote |-> FALSE]

\* generate_new_proposal(inner_puzzle, vote_amount): the proposal with its
\* initial yes-vote
new_proposal(vote_amount) ==
    [exists |-> TRUE, amount_voted |-> vote_amount, yes_votes |-> vote_amount,
     initial |-> vote_amount]

\* A variant that counts every vote as a yes-vote.
add_vote_all_yes(proposal, vote_amount, is_yes_vote) ==
    [proposal EXCEPT !.amount_voted = @ + vote_amount, !.yes_votes = @ + vote_amount]

\* a confirmed vote spend: amount_voted grows by the weight, yes_votes by the
\* weight of a yes-vote only
add_vote(proposal, vote_amount, is_yes_vote) ==
    [proposal EXCEPT !.amount_voted = @ + vote_amount,
                     !.yes_votes = @ + (IF is_yes_vote THEN vote_amount ELSE 0)]

DaoIdle ==
    /\ daoChain = [p \in DaoProposalIds |-> NoProposal]
    /\ daoMempool = NoDaoSpend
    /\ daoConfirmed = <<>>
    /\ daoInfo = [w \in DaoWallets |-> [p \in DaoProposalIds |-> NoProposal]]
    /\ daoSynced = [w \in DaoWallets |-> TRUE]

\* generate_new_proposal(inner_puzzle, vote_amount, fee): the spend is pushed
\* to the mempool
GenerateNewProposal ==
    /\ daoMempool = NoDaoSpend
    /\ \E p \in DaoProposalIds, vote_amount \in VoteAmounts :
          /\ ~daoChain[p].exists
          /\ daoMempool' = [kind |-> "proposal", proposal_id |-> p,
                            vote_amount |-> vote_amount, is_yes_vote |-> TRUE]
    /\ UNCHANGED <<daoChain, daoConfirmed, daoInfo, daoSynced>>
    /\ UNCHANGED notDao

\* generate_proposal_vote_spend(proposal_id, vote_amount, is_yes_vote,
\* push=True) by one of the participants
GenerateProposalVoteSpend ==
    /\ daoMempool = NoDaoSpend
    /\ Len(daoConfirmed) < MaxVotes
    /\ \E p \in DaoProposalIds, vote_amount \in VoteAmounts, is_yes_vote \in BOOLEAN :
          /\ daoChain[p].exists
          /\ daoMempool' = [kind |-> "vote", proposal_id |-> p,
                            vote_amount |-> vote_amount, is_yes_vote |-> is_yes_vote]
    /\ UNCHANGED <<daoChain, daoConfirmed, daoInfo, daoSynced>>
    /\ UNCHANGED notDao

\* farm_new_transaction_block: the spend in the mempool is confirmed
FarmNewTransactionBlock ==
    /\ daoMempool /= NoDaoSpend
    /\ LET s == daoMempool
       IN  IF s.kind = "proposal"
           THEN /\ daoChain' = [daoChain EXCEPT ![s.proposal_id] = new_proposal(s.vote_amount)]
                /\ UNCHANGED daoConfirmed
           ELSE /\ daoChain' = [daoChain EXCEPT ![s.proposal_id] =
                                   add_vote(@, s.vote_amount, s.is_yes_vote)]
                /\ daoConfirmed' = Append(daoConfirmed, s)
    /\ daoMempool' = NoDaoSpend
    /\ daoSynced' = [w \in DaoWallets |-> FALSE]
    /\ UNCHANGED daoInfo
    /\ UNCHANGED notDao

\* wait_for_wallet_synced(wallet_node): the participant's dao_info has the
\* proposals of the chain
WalletSynced(w) ==
    /\ ~daoSynced[w]
    /\ daoInfo' = [daoInfo EXCEPT ![w] = daoChain]
    /\ daoSynced' = [daoSynced EXCEPT ![w] = TRUE]
    /\ UNCHANGED <<daoChain, daoMempool, daoConfirmed>>
    /\ UNCHANGED notDao

(***************************************************************************)
(* The life of one DAO proposal, as the DAO wallet's contract and its      *)
(* tests describe it: created with an initial yes-vote, voted on, reported *)
(* by get_proposal_state, and closed by create_proposal_close_spend.       *)
(***************************************************************************)

\* DAORules of the model's DAO
proposal_timelock == 2
soft_close_length == 1
attendance_required == 3
pass_percentage == 5100
\* the blocks a run farms, and the vote spends it confirms
MaxHeight == 6
MaxProposalVotes == 2

ProposalKinds == {"spend", "mint", "update", "bad"}
ProposalAmounts == {1, 2}
TreasuryFunds == 3

NoDlProposal ==
    [exists |-> FALSE, kind |-> "none", amount |-> 0, created |-> 0, last_spend |-> 0,
     amount_voted |-> 0, yes_votes |-> 0, votes |-> 0, passed |-> FALSE, closed |-> FALSE]
NoDlCall ==
    [op |-> "none", passed |-> FALSE, closable |-> FALSE, closed |-> FALSE, blocks_needed |-> 0,
     self_destruct |-> FALSE, outcome |-> "none", pre |-> NoDlProposal, pre_treasury |-> 0,
     pre_recipient |-> 0]

\* the attendance and the pass-percentage threshold
thresholds_met(p) ==
    /\ p.amount_voted >= attendance_required
    /\ p.yes_votes * 10000 >= p.amount_voted * pass_percentage

\* A variant that asks for the timelock only.
blocks_required_timelock_only(passed) == proposal_timelock

\* proposal_timelock, plus soft_close_length for a passed proposal
blocks_required(passed) == proposal_timelock + (IF passed THEN soft_close_length ELSE 0)

\* get_proposal_state(proposal_id) -> {passed, closable, closed, blocks_needed}
get_proposal_state(p, height) ==
    LET passed == thresholds_met(p)
        elapsed == height - p.created
        needed == blocks_required(passed)
    IN  [passed |-> passed,
         closable |-> elapsed >= needed,
         closed |-> p.closed,
         blocks_needed |-> IF elapsed >= needed THEN 0 ELSE needed - elapsed]

\* whether the mempool takes a close spend: the proposal is closable and
\* soft_close_length blocks lie between its last spend and now
close_spend_accepted(p, height) ==
    /\ get_proposal_state(p, height).closable
    /\ height - p.last_spend >= soft_close_length

\* A variant that pays out whenever the proposal is a spend.
releases_funds_unconditionally(p, self_destruct) == p.kind = "spend"

\* a close executes the proposal's effect if the proposal passed and is not
\* force-closed
releases_funds(p, self_destruct) ==
    p.kind = "spend" /\ thresholds_met(p) /\ ~self_destruct

\* A variant that closes a proposal of any payload.
unrecognised_never(p, self_destruct) == FALSE

\* "Unrecognised proposal type": the payload is no spend, mint or update and
\* the close is not a self-destruct
unrecognised(p, self_destruct) == p.kind = "bad" /\ ~self_destruct

\* create_proposal_close_spend(proposal_id, push, self_destruct) followed to
\* the block that confirms it
create_proposal_close_spend(p, height, self_destruct, treasury, recipient) ==
    IF unrecognised(p, self_destruct)
    THEN [outcome |-> "Unrecognised proposal type", proposal |-> p, height |-> height,
          treasury |-> treasury, recipient |-> recipient]
    ELSE IF p.closed \/ ~close_spend_accepted(p, height)
    THEN [outcome |-> "not accepted", proposal |-> p, height |-> height,
          treasury |-> treasury, recipient |-> recipient]
    ELSE [outcome |-> "closed",
          proposal |-> [p EXCEPT !.closed = TRUE, !.passed = thresholds_met(p),
                                 !.last_spend = height + 1],
          height |-> height + 1,
          treasury |-> IF releases_funds(p, self_destruct) THEN treasury - p.amount
                       ELSE treasury,
          recipient |-> IF releases_funds(p, self_destruct) THEN recipient + p.amount
                        ELSE recipient]

DlIdle ==
    /\ dlHeight = 0
    /\ dlProposal = NoDlProposal
    /\ dlTreasury = TreasuryFunds
    /\ dlRecipient = 0
    /\ dlInfo = [w \in DaoWallets |-> NoDlProposal]
    /\ dlCall = NoDlCall

\* generate_new_proposal(inner_puzzle, vote_amount) and the block that
\* confirms it
ProposalCreated ==
    /\ dlCall = NoDlCall
    /\ ~dlProposal.exists
    /\ dlHeight < MaxHeight
    /\ \E kind \in ProposalKinds, amount \in ProposalAmounts, vote_amount \in VoteAmounts :
          dlProposal' = [exists |-> TRUE, kind |-> kind, amount |-> amount,
                         created |-> dlHeight + 1, last_spend |-> dlHeight + 1,
                         amount_voted |-> vote_amount, yes_votes |-> vote_amount, votes |-> 0,
                         passed |-> FALSE, closed |-> FALSE]
    /\ dlHeight' = dlHeight + 1
    /\ UNCHANGED <<dlTreasury, dlRecipient, dlInfo, dlCall>>
    /\ UNCHANGED notDl

\* generate_proposal_vote_spend(proposal_id, vote_amount, is_yes_vote) and
\* the block that confirms it
VoteConfirmed ==
    /\ dlCall = NoDlCall
    /\ dlProposal.exists /\ ~dlProposal.closed
    /\ dlProposal.votes < MaxProposalVotes
    /\ dlHeight < MaxHeight
    /\ \E vote_amount \in VoteAmounts, is_yes_vote \in BOOLEAN :
          dlProposal' = [add_vote(dlProposal, vote_amount, is_yes_vote)
                            EXCEPT !.votes = @ + 1, !.last_spend = dlHeight + 1]
    /\ dlHeight' = dlHeight + 1
    /\ UNCHANGED <<dlTreasury, dlRecipient, dlInfo, dlCall>>
    /\ UNCHANGED notDl

\* farm_new_transaction_block with nothing of the DAO in it
BlockFarmed ==
    /\ dlCall = NoDlCall
    /\ dlProposal.exists
    /\ dlHeight < MaxHeight
    /\ dlHeight' = dlHeight + 1
    /\ UNCHANGED <<dlProposal, dlTreasury, dlRecipient, dlInfo, dlCall>>
    /\ UNCHANGED notDl

\* get_proposal_state(proposal_id)
GetProposalState ==
    /\ dlCall = NoDlCall
    /\ dlProposal.exists
    /\ LET s == get_proposal_state(dlProposal, dlHeight)
       IN  dlCall' = [NoDlCall EXCEPT !.op = "get_proposal_state", !.passed = s.passed,
                                      !.closable = s.closable, !.closed = s.closed,
                                      !.blocks_needed = s.blocks_needed, !.pre = dlProposal]
    /\ UNCHANGED <<dlHeight, dlProposal, dlTreasury, dlRecipient, dlInfo>>
    /\ UNCHANGED notDl

\* create_proposal_close_spend(proposal_id, push=True, self_destruct)
CreateProposalCloseSpend ==
    /\ dlCall = NoDlCall
    /\ dlProposal.exists
    /\ dlHeight < MaxHeight
    /\ \E self_destruct \in BOOLEAN :
          LET r == create_proposal_close_spend(dlProposal, dlHeight, self_destruct,
                                               dlTreasury, dlRecipient)
              s == get_proposal_state(dlProposal, dlHeight)
          IN  /\ dlProposal' = r.proposal
              /\ dlHeight' = r.height
              /\ dlTreasury' = r.treasury
              /\ dlRecipient' = r.recipient
              /\ dlCall' = [op |-> "create_proposal_close_spend", passed |-> s.passed,
                            closable |-> s.closable, closed |-> s.closed,
                            blocks_needed |-> s.blocks_needed, self_destruct |-> self_destruct,
                            outcome |-> r.outcome, pre |-> dlProposal,
                            pre_treasury |-> dlTreasury, pre_recipient |-> dlRecipient]
    /\ UNCHANGED dlInfo
    /\ UNCHANGED notDl

\* wait_for_wallet_synced: the participant's proposals_list has the proposal
\* as the chain has it
DlWalletSynced(w) ==
    /\ dlInfo[w] /= dlProposal
    /\ dlInfo' = [dlInfo EXCEPT ![w] = dlProposal]
    /\ UNCHANGED <<dlHeight, dlProposal, dlTreasury, dlRecipient, dlCall>>
    /\ UNCHANGED notDl

\* the caller has the answer; the next call may come
DlCallerDone ==
    /\ dlCall /= NoDlCall
    /\ dlCall' = NoDlCall
    /\ UNCHANGED <<dlHeight, dlProposal, dlTreasury, dlRecipient, dlInfo>>
    /\ UNCHANGED notDl

(***************************************************************************)
(* DAO wallets under a reorg, as the contract and test_dao_reorgs describe *)
(* it: the chain is a list of blocks, each with at most one DAO spend; a   *)
(* wallet applies the spends of the blocks it syncs to; a reorg removes    *)
(* the last blocks, whose spends go back to the mempool and are confirmed  *)
(* again when the chain is extended.                                       *)
(***************************************************************************)

\* the blocks of a run, and the blocks one reorg removes
MaxChain == 4
MaxReorg == 2

NoBlockSpend == [kind |-> "none", amount |-> 0, is_yes_vote |-> FALSE]
DaoSpends ==
    {[kind |-> "funding", amount |-> 1, is_yes_vote |-> FALSE],
     [kind |-> "proposal", amount |-> 2, is_yes_vote |-> TRUE],
     [kind |-> "vote", amount |-> 1, is_yes_vote |-> TRUE],
     [kind |-> "vote", amount |-> 2, is_yes_vote |-> FALSE],
     [kind |-> "close", amount |-> 0, is_yes_vote |-> FALSE]}

NoDaoInfo == [balance |-> 0, proposals_list |-> <<>>]
TrackedProposal(amount_voted, yes_votes, passed, closed) ==
    [amount_voted |-> amount_voted, yes_votes |-> yes_votes, passed |-> passed,
     closed |-> closed]

\* whether the spend can be made on a DAO in this state: a vote or a close
\* needs an open proposal, a new proposal needs the last one closed
spend_applies(info, s) ==
    LET n == Len(info.proposals_list)
        open == n > 0 /\ ~info.proposals_list[n].closed
    IN  CASE s.kind = "funding" -> TRUE
          [] s.kind = "proposal" -> ~open
          [] OTHER -> open

\* what a confirmed spend does to the DAO a wallet tracks
apply_spend(info, s) ==
    LET n == Len(info.proposals_list)
        last == info.proposals_list[n]
    IN  CASE s.kind = "funding" -> [info EXCEPT !.balance = @ + s.amount]
          [] s.kind = "proposal" ->
                [info EXCEPT !.proposals_list =
                                 Append(@, TrackedProposal(s.amount, s.amount, FALSE, FALSE))]
          [] s.kind = "vote" ->
                [info EXCEPT !.proposals_list[n] = add_vote(last, s.amount, s.is_yes_vote)]
          [] s.kind = "close" ->
                [info EXCEPT !.proposals_list[n] =
                                 [last EXCEPT !.closed = TRUE, !.passed = thresholds_met(last)]]
          [] OTHER -> info

\* the dao_info of a wallet that has applied these spends, oldest first
RECURSIVE dao_info_after(_)
dao_info_after(applied) ==
    IF applied = <<>> THEN NoDaoInfo
    ELSE apply_spend(dao_info_after(SubSeq(applied, 1, Len(applied) - 1)),
                     applied[Len(applied)].spend)

\* the spends of the blocks from..to of the chain, each with its height
RECURSIVE spends_of(_, _, _)
spends_of(chain, from, to) ==
    IF from > to THEN <<>>
    ELSE (IF chain[from] = NoBlockSpend THEN <<>>
          ELSE <<[height |-> from, spend |-> chain[from]]>>)
             \o spends_of(chain, from + 1, to)

\* wait_for_wallet_synced: the wallet applies the blocks it has not seen
synced_to(view, chain) ==
    [height |-> Len(chain),
     applied |-> view.applied \o spends_of(chain, view.height + 1, Len(chain))]

\* A variant that keeps what the removed blocks had done.
rolled_back_height_only(view, fork) == [view EXCEPT !.height = fork]

\* the wallet is told of a reorg at height fork: what it applied above the
\* fork is undone
rolled_back(view, fork) ==
    [height |-> fork, applied |-> SelectSeq(view.applied, LAMBDA a : a.height <= fork)]

NoReorg == [taken |-> FALSE, height |-> 0, dao_info |-> [w \in DaoWallets |-> NoDaoInfo]]

DrIdle ==
    /\ drChain = <<>>
    /\ drMempool = <<>>
    /\ drView = [w \in DaoWallets |-> [height |-> 0, applied |-> <<>>]]
    /\ drReorg = NoReorg

\* the DAO the chain holds
ChainInfo == dao_info_after(spends_of(drChain, 1, Len(drChain)))

\* a participant pushes a DAO spend (funding, proposal, vote, close)
DaoSpendPushed ==
    /\ ~drReorg.taken
    /\ drMempool = <<>>
    /\ Len(drChain) < MaxChain
    /\ \E s \in DaoSpends :
          /\ spend_applies(ChainInfo, s)
          /\ drMempool' = <<s>>
    /\ UNCHANGED <<drChain, drView, drReorg>>
    /\ UNCHANGED notDr

\* farm_new_transaction_block: the oldest spend of the mempool, if there is
\* one, is confirmed
DrBlockFarmed ==
    /\ Len(drChain) < MaxChain + MaxReorg
    /\ drReorg.taken \/ Len(drChain) < MaxChain
    /\ IF drMempool = <<>>
       THEN /\ drChain' = Append(drChain, NoBlockSpend)
            /\ UNCHANGED drMempool
       ELSE /\ drChain' = Append(drChain, Head(drMempool))
            /\ drMempool' = Tail(drMempool)
    /\ UNCHANGED <<drView, drReorg>>
    /\ UNCHANGED notDr

\* wait_for_wallet_synced(wallet_node)
DrWalletSynced(w) ==
    /\ drView[w].height < Len(drChain)
    /\ drView' = [drView EXCEPT ![w] = synced_to(@, drChain)]
    /\ UNCHANGED <<drChain, drMempool, drReorg>>
    /\ UNCHANGED notDr

\* reorg_from_index_to_new_index: the last k blocks are removed, their spends
\* are back in the mempool, every wallet is told
ReorgFromIndex ==
    /\ ~drReorg.taken
    /\ drMempool = <<>>
    /\ \A w \in DaoWallets : drView[w].height = Len(drChain)
    /\ \E k \in 1..MaxReorg :
          /\ k <= Len(drChain)
          /\ LET fork == Len(drChain) - k
                 orphaned == spends_of(drChain, fork + 1, Len(drChain))
             IN  /\ drChain' = SubSeq(drChain, 1, fork)
                 /\ drMempool' = [i \in 1..Len(orphaned) |-> orphaned[i].spend]
                 /\ drView' = [w \in DaoWallets |-> rolled_back(drView[w], fork)]
                 /\ drReorg' = [taken |-> TRUE, height |-> Len(drChain),
                                dao_info |-> [w \in DaoWallets |->
                                                 dao_info_after(drView[w].applied)]]
    /\ UNCHANGED notDr

\* the chain is as high as before, the wallets are synced: the test goes on
ReorgSettled ==
    /\ drReorg.taken
    /\ drMempool = <<>>
    /\ Len(drChain) >= drReorg.height
    /\ \A w \in DaoWallets : drView[w].height = Len(drChain)
    /\ drReorg' = NoReorg
    /\ UNCHANGED <<drChain, drMempool, drView>>
    /\ UNCHANGED notDr

(***************************************************************************)
(* The DAO CAT lockup, as the contract and test_dao_concurrency and        *)
(* test_dao_cat_exits describe it: a voter locks CATs, a vote spends the   *)
(* proposal's coin together with the voter's locked coin and records the   *)
(* proposal in the coin's active_votes; closed proposals are freed from    *)
(* active_votes and a coin with no active vote can leave the lockup.       *)
(***************************************************************************)

\* the CATs each voter starts with
MaxCats == 2

NoLkProposal == [exists |-> FALSE, coin |-> 0, amount_voted |-> 0, yes_votes |-> 0,
                 closed |-> FALSE]
NoLocked == [amount |-> 0, active_votes |-> {}]
NoLkCall == [op |-> "none", voter |-> "none", proposals |-> <<>>, locked |-> <<>>,
             cat |-> <<>>, mempool |-> {}]

\* DAOCATWallet.get_votable_balance(proposal_id): the locked amount not yet
\* voting on the proposal
get_votable_balance(locked, p) == IF p \in locked.active_votes THEN 0 ELSE locked.amount

\* a vote spend is valid while the proposal coin it was built on is unspent
\* and the voter's locked coin is as it was
vote_valid(s, proposals, locked) ==
    /\ proposals[s.proposal_id].exists
    /\ ~proposals[s.proposal_id].closed
    /\ proposals[s.proposal_id].coin = s.coin
    /\ get_votable_balance(locked[s.voter], s.proposal_id) = s.vote_amount

\* A variant that confirms every valid spend of the mempool.
spends_confirmed_all(mempool, proposals, locked) ==
    {{s \in mempool : vote_valid(s, proposals, locked)}}

\* the choices a block has: of the valid spends, one for each proposal coin
\* and each locked coin, as many as fit
spends_confirmed(mempool, proposals, locked) ==
    LET valid == {s \in mempool : vote_valid(s, proposals, locked)}
        compatible(S) == \A s, t \in S :
                            s /= t => (s.proposal_id /= t.proposal_id /\ s.voter /= t.voter)
    IN  {S \in SUBSET valid :
            /\ compatible(S)
            /\ \A s \in valid \ S : ~compatible(S \cup {s})}

\* the weight, and the yes-weight, the spends of S add to proposal p
RECURSIVE vote_weight(_, _, _)
vote_weight(S, p, yes_only) ==
    IF S = {} THEN 0
    ELSE LET s == CHOOSE x \in S : TRUE
         IN  (IF s.proposal_id = p /\ (s.is_yes_vote \/ ~yes_only) THEN s.vote_amount ELSE 0)
                + vote_weight(S \ {s}, p, yes_only)

\* the proposals after the spends of S are confirmed: each voted proposal has
\* a new coin
proposals_after(proposals, S) ==
    [p \in DOMAIN proposals |->
        IF \E s \in S : s.proposal_id = p
        THEN [proposals[p] EXCEPT !.coin = @ + 1,
                                  !.amount_voted = @ + vote_weight(S, p, FALSE),
                                  !.yes_votes = @ + vote_weight(S, p, TRUE)]
        ELSE proposals[p]]

\* the locked coins after the spends of S are confirmed
locked_after(locked, S) ==
    [v \in DOMAIN locked |->
        [locked[v] EXCEPT !.active_votes =
                              @ \cup {s.proposal_id : s \in {t \in S : t.voter = v}}]]

\* free_coins_from_finished_proposals: the closed proposals leave the
\* coin's active_votes
free_coins_from_finished_proposals(coin, proposals) ==
    [coin EXCEPT !.active_votes = {p \in @ : ~proposals[p].closed}]

\* A variant that takes the coin out of the lockup and returns nothing.
exit_lockup_returns_nothing(cat, coin) ==
    IF coin.active_votes = {} THEN [cat |-> cat, locked |-> NoLocked]
    ELSE [cat |-> cat, locked |-> coin]

\* dao_exit_lockup: a locked coin with no active vote goes back to the CAT
\* wallet
exit_lockup(cat, coin) ==
    IF coin.active_votes = {} THEN [cat |-> cat + coin.amount, locked |-> NoLocked]
    ELSE [cat |-> cat, locked |-> coin]

LkIdle ==
    /\ lkProposal = [p \in DaoProposalIds |-> NoLkProposal]
    /\ lkCat = [v \in DaoWallets |-> MaxCats]
    /\ lkLocked = [v \in DaoWallets |-> NoLocked]
    /\ lkMempool = {}
    /\ lkCall = NoLkCall

LkSnapshot(op, voter) ==
    [op |-> op, voter |-> voter, proposals |-> lkProposal, locked |-> lkLocked,
     cat |-> lkCat, mempool |-> lkMempool]

\* dao_send_to_lockup / create_new_dao_cats(amount) and the block that
\* confirms it
CreateNewDaoCats(v) ==
    /\ lkCall = NoLkCall
    /\ lkLocked[v] = NoLocked
    /\ \E amount \in 1..MaxCats :
          /\ amount <= lkCat[v]
          /\ lkCat' = [lkCat EXCEPT ![v] = @ - amount]
          /\ lkLocked' = [lkLocked EXCEPT ![v] = [amount |-> amount, active_votes |-> {}]]
    /\ UNCHANGED <<lkProposal, lkMempool, lkCall>>
    /\ UNCHANGED notLk

\* generate_new_proposal and the block that confirms it (the proposer's own
\* vote is left out here)
LkProposalCreated(p) ==
    /\ lkCall = NoLkCall
    /\ ~lkProposal[p].exists
    /\ lkProposal' = [lkProposal EXCEPT ![p] = [NoLkProposal EXCEPT !.exists = TRUE, !.coin = 1]]
    /\ UNCHANGED <<lkCat, lkLocked, lkMempool, lkCall>>
    /\ UNCHANGED notLk

\* generate_proposal_vote_spend(proposal_id, vote_amount, is_yes_vote,
\* push=True): built on the proposal coin the voter's wallet knows
GenerateProposalVoteSpendPushed(v, p) ==
    /\ lkCall = NoLkCall
    /\ lkProposal[p].exists /\ ~lkProposal[p].closed
    /\ get_votable_balance(lkLocked[v], p) > 0
    /\ \A s \in lkMempool : s.voter /= v
    /\ \E is_yes_vote \in BOOLEAN :
          lkMempool' = lkMempool \cup
                          {[voter |-> v, proposal_id |-> p, coin |-> lkProposal[p].coin,
                            vote_amount |-> get_votable_balance(lkLocked[v], p),
                            is_yes_vote |-> is_yes_vote]}
    /\ UNCHANGED <<lkProposal, lkCat, lkLocked, lkCall>>
    /\ UNCHANGED notLk

\* farm_new_transaction_block: the block confirms what it can of the
\* mempool; spends left without their coin are dropped
LkFarmBlock ==
    /\ lkCall = NoLkCall
    /\ lkMempool /= {}
    /\ \E S \in spends_confirmed(lkMempool, lkProposal, lkLocked) :
          /\ lkProposal' = proposals_after(lkProposal, S)
          /\ lkLocked' = locked_after(lkLocked, S)
          /\ lkMempool' = {s \in lkMempool \ S :
                              vote_valid(s, proposals_after(lkProposal, S),
                                         locked_after(lkLocked, S))}
    /\ lkCall' = LkSnapshot("farm_new_transaction_block", "none")
    /\ UNCHANGED lkCat
    /\ UNCHANGED notLk

\* create_proposal_close_spend and the block that confirms it
LkProposalClosed(p) ==
    /\ lkCall = NoLkCall
    /\ lkProposal[p].exists /\ ~lkProposal[p].closed
    /\ lkProposal' = [lkProposal EXCEPT ![p].closed = TRUE, ![p].coin = @ + 1]
    /\ lkMempool' = {s \in lkMempool : s.proposal_id /= p}
    /\ UNCHANGED <<lkCat, lkLocked, lkCall>>
    /\ UNCHANGED notLk

\* free_coins_from_finished_proposals and the block that confirms it
FreeCoinsFromFinishedProposals(v) ==
    /\ lkCall = NoLkCall
    /\ lkLocked[v].active_votes /= {}
    /\ lkLocked' = [lkLocked EXCEPT ![v] = free_coins_from_finished_proposals(@, lkProposal)]
    /\ lkMempool' = {s \in lkMempool : s.voter /= v}
    /\ lkCall' = LkSnapshot("free_coins_from_finished_proposals", v)
    /\ UNCHANGED <<lkProposal, lkCat>>
    /\ UNCHANGED notLk

\* dao_exit_lockup and the block that confirms it
DaoExitLockup(v) ==
    /\ lkCall = NoLkCall
    /\ lkLocked[v] /= NoLocked
    /\ LET r == exit_lockup(lkCat[v], lkLocked[v])
       IN  /\ lkCat' = [lkCat EXCEPT ![v] = r.cat]
           /\ lkLocked' = [lkLocked EXCEPT ![v] = r.locked]
    /\ lkMempool' = {s \in lkMempool : s.voter /= v}
    /\ lkCall' = LkSnapshot("dao_exit_lockup", v)
    /\ UNCHANGED lkProposal
    /\ UNCHANGED notLk

\* the test has looked at the wallets; it goes on
LkCallerDone ==
    /\ lkCall /= NoLkCall
    /\ lkCall' = NoLkCall
    /\ UNCHANGED <<lkProposal, lkCat, lkLocked, lkMempool>>
    /\ UNCHANGED notLk

(***************************************************************************)
(* CATWallet.generate_unsigned_spendbundle and create_tandem_xch_tx        *)
(* (cat_wallet.py): the announcements that tie the CAT spends to the       *)
(* tandem XCH transaction.                                                 *)
(***************************************************************************)

MaxFee == 2
\* the longest list of payments a caller passes
MaxPayments == 2
TandemPayments == {1, 2}
ExtraDeltas == {0 - 1, 0, 1}
CatCoinNames == {"cat_coin_a", "cat_coin_b"}
XchCoinNames == {"xch_coin_a", "xch_coin_b"}
PuzzleHashes == {"ph_dest", "ph_own"}

\* the amounts of the wallet's CAT coins
CatCoinAmount(name) == IF name = "cat_coin_a" THEN 2 ELSE 1

\* std_hash over a concatenation: equal exactly when the parts are equal and
\* in the same order
std_hash(parts) == [hash_of |-> parts]

\* Announcement(origin_info, message); its name() is the hash of the two
Announcement(origin_info, message) == [origin_info |-> origin_info, message |-> message]
NoAnnouncement == Announcement("none", std_hash(<<>>))
ExternalAnnouncement == Announcement("other_coin", std_hash(<<"other_message">>))

\* an Optional[Set[...]] argument: None, or a set of announcement names
NoneSet == [some |-> FALSE, names |-> {}]
SomeSet(S) == [some |-> TRUE, names |-> S]
AnnouncementsToConsume == {NoneSet, SomeSet({}), SomeSet({ExternalAnnouncement})}

\* Payment(puzzle_hash, amount, memos)
Payment(puzzle_hash, amount) == [puzzle_hash |-> puzzle_hash, amount |-> amount]
PaymentLists ==
    SeqsUpTo({Payment(ph, amount) : ph \in PuzzleHashes, amount \in TandemPayments},
             MaxPayments)

\* cat_discrepancy: None, or (extra_delta, tail_reveal, tail_solution)
NoDiscrepancy == [some |-> FALSE, extra_delta |-> 0]
Discrepancies == {NoDiscrepancy} \cup {[some |-> TRUE, extra_delta |-> d] : d \in ExtraDeltas}

\* the coins of a spend in the order in which the set is iterated: every
\* order of every non-empty set of the wallet's coins
CoinSelections ==
    {sel \in SeqsUpTo(CatCoinNames, Cardinality(CatCoinNames)) :
        /\ Len(sel) > 0
        /\ \A i, j \in 1..Len(sel) : i /= j => sel[i] /= sel[j]}

RECURSIVE SumPayments(_)
SumPayments(payments) ==
    IF payments = <<>> THEN 0 ELSE Head(payments).amount + SumPayments(Tail(payments))
RECURSIVE SumCoins(_)
SumCoins(coins) ==
    IF coins = <<>> THEN 0 ELSE CatCoinAmount(Head(coins)) + SumCoins(Tail(coins))

NoChiaTx == [made |-> FALSE, fee |-> 0, negative_change_allowed |-> FALSE,
             coin_announcements_to_consume |-> NoneSet, creates |-> NoAnnouncement,
             spend_bundle |-> {}]

\* standard_wallet.generate_signed_transaction: the primary coin of the
\* transaction announces the transaction's message
standard_transaction(origin_id, fee, negative_change_allowed, to_consume) ==
    [made |-> TRUE, fee |-> fee, negative_change_allowed |-> negative_change_allowed,
     coin_announcements_to_consume |-> to_consume,
     creates |-> Announcement(origin_id, std_hash(<<"xch_message">>)),
     spend_bundle |-> {origin_id}]

\* create_tandem_xch_tx(fee, amount_to_claim, announcement_to_assert): the
\* transaction and the announcement it returns
create_tandem_xch_tx(fee, amount_to_claim, announcement_to_assert, origin_id) ==
    LET to_consume == IF announcement_to_assert /= NoAnnouncement
                      THEN SomeSet({announcement_to_assert}) ELSE NoneSet
    IN  IF fee > amount_to_claim
        THEN LET chia_tx == standard_transaction(origin_id, fee - amount_to_claim, FALSE,
                                                 to_consume)
             IN  [chia_tx |-> chia_tx, announcement |-> chia_tx.creates]
        ELSE [chia_tx |-> standard_transaction(origin_id, 0, TRUE, to_consume),
              announcement |-> NoAnnouncement]

\* standard_wallet.make_solution(primaries, coin_announcements,
\* coin_announcements_to_assert): the conditions of an inner solution
make_solution(primaries, coin_announcements, coin_announcements_to_assert) ==
    [primaries |-> primaries, coin_announcements |-> coin_announcements,
     coin_announcements_to_assert |-> coin_announcements_to_assert,
     extra_conditions |-> <<>>]

\* lines 768-772: with a cat_discrepancy the conditions get
\* [51, None, -113, tail_reveal, tail_solution] in front
with_tail_condition(innersol) ==
    [innersol EXCEPT !.extra_conditions =
        <<[opcode |-> 51, puzzle_hash |-> "None", amount |-> 0 - 113]>>]

\* A variant that asks for a tandem transaction whenever a fee or a claim
\* is there.
need_chia_transaction_any(fee, regular_chia_to_claim) ==
    fee > 0 \/ regular_chia_to_claim > 0

\* line 695
need_chia_transaction(fee, regular_chia_to_claim) ==
    (fee > 0 \/ regular_chia_to_claim > 0) /\ fee - regular_chia_to_claim /= 0

\* A variant that adds the delta to the payments.
starting_amount_plus(payment_amount, extra_delta) == payment_amount + extra_delta

\* line 661
starting_amount(payment_amount, extra_delta) == payment_amount - extra_delta

\* A variant in which the other coins assert nothing.
follower_solution_bare(announcement) == make_solution(<<>>, {}, NoneSet)

\* lines 763-767: the inner solution of a coin that is not the first
follower_solution(announcement) == make_solution(<<>>, {}, SomeSet({announcement}))

\* lines 700-714: the puzzle hash of the change
change_puzhash(payments, change, reuse_puzhash) ==
    IF reuse_puzhash /\ ~\E i \in 1..Len(payments) : payments[i] = Payment("ph_own", change)
    THEN "ph_own" ELSE "ph_new"

NoSpendBundle == [raised |-> "none", fee |-> 0, regular_chia_to_claim |-> 0,
             need_chia_transaction |-> FALSE, selected_cat_amount |-> 0, change |-> 0,
             primaries |-> <<>>, chia_tx |-> NoChiaTx,
             innersol |-> make_solution(<<>>, {}, NoneSet), innersols |-> <<>>,
             bundle |-> {}]

\* generate_unsigned_spendbundle, lines 656-801: the inner solutions of the
\* selected coins, the first of them the announcer, the tandem transaction
\* and the coins the returned bundle spends
generate_unsigned_spendbundle(payments, fee_in, cat_discrepancy, cat_coins, to_consume, origin, reuse_puzhash) ==
    LET extra_delta == cat_discrepancy.extra_delta
        payment_amount == SumPayments(payments)
        start == starting_amount(payment_amount, extra_delta)
        selected_cat_amount == SumCoins(cat_coins)
        fee == IF payment_amount > start THEN fee_in + payment_amount - start ELSE fee_in
        regular_chia_to_claim == IF payment_amount < start THEN payment_amount ELSE 0
        need == need_chia_transaction(fee, regular_chia_to_claim)
        change == selected_cat_amount - start
        primaries == IF change > 0
                     THEN Append(payments,
                                 Payment(change_puzhash(payments, change, reuse_puzhash), change))
                     ELSE payments
        announcement == Announcement(cat_coins[1], std_hash(cat_coins))
        chia_tx == IF need /\ fee > regular_chia_to_claim
                   THEN create_tandem_xch_tx(fee, regular_chia_to_claim, announcement,
                                             origin).chia_tx
                   ELSE IF need
                   THEN create_tandem_xch_tx(fee, regular_chia_to_claim, NoAnnouncement,
                                             origin).chia_tx
                   ELSE NoChiaTx
        first_solution == IF need /\ ~(fee > regular_chia_to_claim)
                          THEN make_solution(primaries, {announcement.message},
                                             SomeSet({announcement}))
                          ELSE make_solution(primaries, {announcement.message}, to_consume)
        plain == [i \in 1..Len(cat_coins) |->
                    IF i = 1 THEN first_solution ELSE follower_solution(announcement)]
        innersols == [i \in 1..Len(cat_coins) |->
                        IF cat_discrepancy.some THEN with_tail_condition(plain[i])
                        ELSE plain[i]]
    IN  IF selected_cat_amount < start
        THEN [NoSpendBundle EXCEPT !.raised = "AssertionError"]
        ELSE [raised |-> "none", fee |-> fee, regular_chia_to_claim |-> regular_chia_to_claim,
              need_chia_transaction |-> need, selected_cat_amount |-> selected_cat_amount,
              change |-> change, primaries |-> primaries, chia_tx |-> chia_tx,
              innersol |-> innersols[1], innersols |-> innersols,
              bundle |-> {cat_coins[i] : i \in 1..Len(cat_coins)} \cup chia_tx.spend_bundle]

NoTdCall == [called |-> FALSE, payments |-> <<>>, payment_amount |-> 0, fee_in |-> 0,
             cat_discrepancy |-> NoDiscrepancy, extra_delta |-> 0,
             cat_coins |-> <<>>, first |-> "none", to_consume |-> NoneSet] @@ NoSpendBundle
TdIdle == tdCall = NoTdCall

\* a caller builds a spend bundle
GenerateUnsignedSpendbundle ==
    /\ tdCall = NoTdCall
    /\ \E payments \in PaymentLists, fee \in 0..MaxFee, cat_discrepancy \in Discrepancies,
          cat_coins \in CoinSelections, to_consume \in AnnouncementsToConsume,
          origin \in XchCoinNames, reuse_puzhash \in BOOLEAN :
          tdCall' = [called |-> TRUE, payments |-> payments,
                     payment_amount |-> SumPayments(payments), fee_in |-> fee,
                     cat_discrepancy |-> cat_discrepancy,
                     extra_delta |-> cat_discrepancy.extra_delta,
                     cat_coins |-> cat_coins, first |-> cat_coins[1],
                     to_consume |-> to_consume]
                    @@ generate_unsigned_spendbundle(payments, fee, cat_discrepancy,
                                                     cat_coins, to_consume, origin,
                                                     reuse_puzhash)
    /\ UNCHANGED notTd

\* the caller has the bundle; the next call may come
TdCallerDone ==
    /\ tdCall /= NoTdCall
    /\ tdCall' = NoTdCall
    /\ UNCHANGED notTd

(***************************************************************************)
(* OuterDriver.construct_outer_solution (cat_wallet.py): the ring of the   *)
(* CAT spends of one TAIL in a bundle, each member naming the previous and *)
(* the next coin and carrying its subtotal.                                *)
(***************************************************************************)

\* the coins of a bundle: coin ids are 1..MaxRing
MaxRing == 3
RingCoinIds == 1..MaxRing
RingTails == {"tail_a", "tail_b"}
CoinAmounts == {1, 2}

\* an action of a spend description: its type and, for a payment, the amount
WalletAction(type, amount) == [type |-> type, amount |-> amount]
ActionLists ==
    {<<>>,
     <<WalletAction("direct_payment", 1)>>,
     <<WalletAction("condition", 1), WalletAction("offered_amount", 2)>>,
     <<WalletAction("make_announcement", 0)>>}

\* a spend of the bundle with its description: a CAT of some TAIL, or not a
\* CAT; absent when the id is no coin of the bundle
AbsentSpend == [kind |-> "absent", tail |-> "none", amount |-> 0, actions |-> <<>>]
BundleSpends ==
    {AbsentSpend}
       \cup {[kind |-> "not_cat", tail |-> "none", amount |-> 1, actions |-> <<>>]}
       \cup {[kind |-> "cat", tail |-> "tail_b", amount |-> 1,
              actions |-> <<WalletAction("direct_payment", 1)>>]}
       \cup [kind : {"cat"}, tail : {"tail_a"}, amount : CoinAmounts, actions : ActionLists]

\* a Python value that is a str, and one that is a list
PyStr(s) == [py |-> "str", value |-> s]
PyList(l) == [py |-> "list", value |-> l]
\* Python's ==: values of different types are unequal
py_eq(a, b) == a.py = b.py /\ a.value = b.value

\* [Condition.name(), DirectPayment.name(), OfferedAmount.name()]
PaymentTypeNames == <<"condition", "direct_payment", "offered_amount">>

\* A variant that tests membership of the list.
type_in_payment_types(type) == Contains(PaymentTypeNames, type)

\* line 1138: action["type"] == [Condition.name(), DirectPayment.name(),
\* OfferedAmount.name()], a str compared with a list
type_eq_payment_types(type) == py_eq(PyStr(type), PyList(PaymentTypeNames))

\* the sequence of the elements of a set of ids, ascending: list.sort by
\* coin name
RECURSIVE sorted_ids(_)
sorted_ids(S) ==
    IF S = {} THEN <<>>
    ELSE LET m == CHOOSE x \in S : \A y \in S : x <= y
         IN  <<m>> \o sorted_ids(S \ {m})

\* lines 1111-1119: the spends whose puzzle is a CAT of this driver's TAIL,
\* in the sorted order
only_same_cat_spends(spends, tail) ==
    sorted_ids({c \in DOMAIN spends : spends[c].kind = "cat" /\ spends[c].tail = tail})

\* lines 1136-1146 for one description: one entry for each action the type
\* test lets through
RECURSIVE amounts_of_actions(_)
amounts_of_actions(actions) ==
    IF actions = <<>> THEN <<>>
    ELSE (IF type_eq_payment_types(Head(actions).type) THEN <<Head(actions).amount>>
          ELSE <<>>) \o amounts_of_actions(Tail(actions))

\* lines 1135-1146: one flat list over the relevant descriptions
RECURSIVE output_amounts(_, _)
output_amounts(spends, ring) ==
    IF ring = <<>> THEN <<>>
    ELSE amounts_of_actions(spends[Head(ring)].actions) \o output_amounts(spends, Tail(ring))

\* lines 1148-1153 up to position k (positions count from 0): the subtotals,
\* or IndexError when output_amounts has no entry i
RECURSIVE subtotals(_, _, _, _)
subtotals(spends, ring, outputs, k) ==
    IF k = 0 THEN [raised |-> FALSE, list |-> <<>>]
    ELSE LET before == subtotals(spends, ring, outputs, k - 1)
             i == k - 1
         IN  IF before.raised THEN before
             ELSE IF i = 0 THEN [raised |-> FALSE, list |-> <<0>>]
             ELSE IF i >= Len(outputs) THEN [raised |-> TRUE, list |-> before.list]
             ELSE [raised |-> FALSE,
                   list |-> Append(before.list,
                                   before.list[i] + outputs[i + 1] - spends[ring[i + 1]].amount)]

\* A variant that does not wrap at the end of the ring.
next_index_unwrapped(my_index, n) == my_index + 1

\* line 1131
next_index(my_index, n) == IF my_index = n - 1 THEN 0 ELSE my_index + 1

\* line 1130
previous_index(my_index) == my_index - 1

\* Python's list[i] for an i the list has: a negative i counts from the end
py_item(list, i) == IF i < 0 THEN list[Len(list) + i + 1] ELSE list[i + 1]
py_has(list, i) == IF i < 0 THEN 0 - i <= Len(list) ELSE i < Len(list)

NoRing == [outcome |-> "none", spends |-> <<>>, tail |-> "none", my_id |-> 0, ring |-> <<>>,
           my_index |-> 0, previous_index |-> 0, next_index |-> 0, output_amounts |-> <<>>,
           subtotals |-> <<>>, previous |-> 0, next |-> 0, subtotal |-> 0]

\* construct_outer_solution(actions, inner_solution, global_environment,
\* local_environment, optimize)
construct_outer_solution(spends, tail, my_id, optimize) ==
    LET ring == only_same_cat_spends(spends, tail)
        n == Len(ring)
        my_index == (CHOOSE k \in 1..n : ring[k] = my_id) - 1
        outputs == output_amounts(spends, ring)
        subs == subtotals(spends, ring, outputs, n)
        at1131 == [NoRing EXCEPT !.spends = spends, !.tail = tail, !.my_id = my_id,
                                 !.ring = ring, !.my_index = my_index,
                                 !.previous_index = previous_index(my_index),
                                 !.next_index = next_index(my_index, n),
                                 !.output_amounts = outputs, !.subtotals = subs.list]
    IN  IF ~optimize
        THEN [NoRing EXCEPT !.outcome = "placeholder", !.spends = spends, !.tail = tail,
                            !.my_id = my_id]
        ELSE IF ~Contains(ring, my_id)
        THEN [NoRing EXCEPT !.outcome = "StopIteration", !.spends = spends, !.tail = tail,
                            !.my_id = my_id, !.ring = ring]
        ELSE IF subs.raised \/ ~py_has(ring, at1131.next_index)
        THEN [at1131 EXCEPT !.outcome = "IndexError"]
        ELSE [at1131 EXCEPT !.outcome = "full_solution",
                            !.previous = py_item(ring, at1131.previous_index),
                            !.next = py_item(ring, at1131.next_index),
                            !.subtotal = subs.list[my_index + 1]]

RgIdle == rgCall = NoRing

\* a coin of the bundle has its outer solution built
ConstructOuterSolution ==
    /\ rgCall = NoRing
    /\ \E spends \in [RingCoinIds -> BundleSpends], tail \in RingTails, optimize \in BOOLEAN :
          \E my_id \in {c \in RingCoinIds : spends[c].kind = "cat" /\ spends[c].tail = tail} :
             rgCall' = construct_outer_solution(spends, tail, my_id, optimize)
    /\ UNCHANGED notRg

\* the caller has the solution; the next call may come
RgCallerDone ==
    /\ rgCall /= NoRing
    /\ rgCall' = NoRing
    /\ UNCHANGED notRg

(***************************************************************************)
(* Specifications: one per component; the others stay idle.               *)
(***************************************************************************)
CapIdle ==
    /\ capMaster = << <<1, "1">>, <<2, "1">>, <<3, "1">> >>
    /\ capIn = NoneList
    /\ capArg = NoneList
    /\ capResult = <<>>
    /\ capPath = "none"

DbpIdle == DbpInit

InitCaps == CapInit /\ DbpIdle /\ CiIdle /\ SgInit /\ RegInit /\ CatIdle /\ SdIdle /\ RsIdle /\ AlIdle /\ LnIdle /\ HnIdle /\ DaoIdle /\ DlIdle /\ DrIdle /\ LkIdle /\ TdIdle /\ RgIdle /\ GcIdle
SpecCaps == InitCaps /\ [][CapNext]_vars

InitDbp == DbpInit /\ CapIdle /\ CiIdle /\ SgInit /\ RegInit /\ CatIdle /\ SdIdle /\ RsIdle /\ AlIdle /\ LnIdle /\ HnIdle /\ DaoIdle /\ DlIdle /\ DrIdle /\ LkIdle /\ TdIdle /\ RgIdle /\ GcIdle
SpecDbp == InitDbp /\ [][DbpNext]_vars

InitCoinInfo == CiInit /\ CapIdle /\ DbpIdle /\ SgInit /\ RegInit /\ CatIdle /\ SdIdle /\ RsIdle /\ AlIdle /\ LnIdle /\ HnIdle /\ DaoIdle /\ DlIdle /\ DrIdle /\ LkIdle /\ TdIdle /\ RgIdle /\ GcIdle
SpecCoinInfo == InitCoinInfo /\ [][CiNext]_vars

InitSign == SgInit /\ CapIdle /\ DbpIdle /\ CiIdle /\ RegInit /\ CatIdle /\ SdIdle /\ RsIdle /\ AlIdle /\ LnIdle /\ HnIdle /\ DaoIdle /\ DlIdle /\ DrIdle /\ LkIdle /\ TdIdle /\ RgIdle /\ GcIdle
SpecSign == InitSign /\ [][SgNext]_vars

\* the wallet registry under both creation paths
Init == RegInit /\ CapIdle /\ DbpIdle /\ CiIdle /\ SgInit /\ CatIdle /\ SdIdle /\ RsIdle /\ AlIdle /\ LnIdle /\ HnIdle /\ DaoIdle /\ DlIdle /\ DrIdle /\ LkIdle /\ TdIdle /\ RgIdle /\ GcIdle
Next == RegNext
Spec == Init /\ [][Next]_vars

\* the wallet registry when wallets come from get_or_create_wallet_for_cat only
NextGetOrCreate ==
    \/ GetOrCreateWalletForCat
    \/ RegCallerDone
SpecGetOrCreate == Init /\ [][NextGetOrCreate]_vars

\* get_or_create_wallet_for_cat called by tasks that run side by side
NextGetOrCreateTasks ==
    \/ \E t \in Tasks : GcCallerTakesLock(t)
    \/ \E t \in Tasks : GcCallerSkipsLock(t)
    \/ \E t \in Tasks : GcLookup(t)
    \/ \E t \in Tasks : GcCreateWallet(t)
    \/ \E t \in Tasks : GcCreateLineageStore(t)
    \/ \E t \in Tasks : GcAddNewWallet(t)
    \/ \E t \in Tasks : GcCallerDone(t)
SpecGetOrCreateTasks == Init /\ [][NextGetOrCreateTasks]_vars

\* get_max_send_amount on a wallet that receives coins
InitCat == CatInit /\ CapIdle /\ DbpIdle /\ CiIdle /\ SgInit /\ RegInit /\ SdIdle /\ RsIdle /\ AlIdle /\ LnIdle /\ HnIdle /\ DaoIdle /\ DlIdle /\ DrIdle /\ LkIdle /\ TdIdle /\ RgIdle /\ GcIdle
NextMaxSend ==
    \/ CoinAdded
    \/ GetMaxSendAmount
    \/ MaxSendCallerDone
SpecMaxSend == InitCat /\ [][NextMaxSend]_vars

\* generate_signed_transaction called with every shape of arguments
NextGst ==
    \/ CoinAdded
    \/ GenerateSignedTransactionCalled
    \/ GstCallerDone
SpecGst == InitCat /\ [][NextGst]_vars

\* transaction constructions by the tasks of one wallet process
NextTx ==
    \/ CoinAdded
    \/ \E t \in Tasks : CallerTakesLock(t)
    \/ \E t \in Tasks : CallerSkipsLock(t)
    \/ \E t \in Tasks : GenerateSignedTransaction(t)
    \/ \E t \in Tasks : AddPendingTransaction(t)
InitTx == CatIdle /\ CapIdle /\ DbpIdle /\ CiIdle /\ SgInit /\ RegInit /\ SdIdle /\ RsIdle /\ AlIdle /\ LnIdle /\ HnIdle /\ DaoIdle /\ DlIdle /\ DrIdle /\ LkIdle /\ TdIdle /\ RgIdle /\ GcIdle
SpecTx == InitTx /\ [][NextTx]_vars

\* select_coins_from_spend_descriptions over bundles in progress
InitSd == SdIdle /\ CapIdle /\ DbpIdle /\ CiIdle /\ SgInit /\ RegInit /\ CatIdle /\ RsIdle /\ AlIdle /\ LnIdle /\ HnIdle /\ DaoIdle /\ DlIdle /\ DrIdle /\ LkIdle /\ TdIdle /\ RgIdle /\ GcIdle
SpecSd == InitSd /\ [][SdNext]_vars

\* rpc_state; the event loop runs a coroutine that is ready and wakes a
\* sleeper when its time is up
InitRpcState == RsIdle /\ CapIdle /\ DbpIdle /\ CiIdle /\ SgInit /\ RegInit /\ CatIdle /\ SdIdle /\ AlIdle /\ LnIdle /\ HnIdle /\ DaoIdle /\ DlIdle /\ DrIdle /\ LkIdle /\ TdIdle /\ RgIdle /\ GcIdle
SpecRpcState == InitRpcState /\ [][RsNext]_vars
SpecRpcStateFair == SpecRpcState /\ WF_vars(Poll) /\ WF_vars(Sleep)

\* alias_actions on CoinInfos with every choice of alias tables
InitAlias == AlInit /\ CapIdle /\ DbpIdle /\ CiIdle /\ SgInit /\ RegInit /\ CatIdle /\ SdIdle /\ RsIdle /\ LnIdle /\ HnIdle /\ DaoIdle /\ DlIdle /\ DrIdle /\ LkIdle /\ TdIdle /\ RgIdle /\ GcIdle
SpecAlias == InitAlias /\ [][AlNext]_vars

\* the confirmed balance of a wallet whose coins come and go
InitLineage == LnIdle /\ CapIdle /\ DbpIdle /\ CiIdle /\ SgInit /\ RegInit /\ CatIdle /\ SdIdle /\ RsIdle /\ AlIdle /\ HnIdle /\ DaoIdle /\ DlIdle /\ DrIdle /\ LkIdle /\ TdIdle /\ RgIdle /\ GcIdle
NextLineage ==
    \/ LnCoinAdded
    \/ LnOtherWalletCoinAdded
    \/ LnLegacyLineageMigrated
    \/ GetBalances
    \/ LnCoinSpent
    \/ GetConfirmedBalance
    \/ CbCallerDone
SpecLineage == InitLineage /\ [][NextLineage]_vars

\* a wallet node or a full node set up for a test and released after it
InitHarness == HnIdle /\ CapIdle /\ DbpIdle /\ CiIdle /\ SgInit /\ RegInit /\ CatIdle /\ SdIdle /\ RsIdle /\ AlIdle /\ LnIdle /\ DaoIdle /\ DlIdle /\ DrIdle /\ LkIdle /\ TdIdle /\ RgIdle /\ GcIdle
NextHarness ==
    \/ HnLeftoverFile
    \/ SetupWalletNode
    \/ SetupFullNode
    \/ ServiceStarted
    \/ TestUsesService
    \/ HnStop
    \/ HnBodyRaises
    \/ ServiceShutsDown
    \/ HnCleanup
    \/ HnNextTest
SpecHarness == InitHarness /\ [][NextHarness]_vars

\* proposals and votes of one DAO seen by its participants
InitDao == DaoIdle /\ CapIdle /\ DbpIdle /\ CiIdle /\ SgInit /\ RegInit /\ CatIdle /\ SdIdle /\ RsIdle /\ AlIdle /\ LnIdle /\ HnIdle /\ DlIdle /\ DrIdle /\ LkIdle /\ TdIdle /\ RgIdle /\ GcIdle
NextDao ==
    \/ GenerateNewProposal
    \/ GenerateProposalVoteSpend
    \/ FarmNewTransactionBlock
    \/ \E w \in DaoWallets : WalletSynced(w)
SpecDao == InitDao /\ [][NextDao]_vars

\* one proposal from its creation to its close
InitProposal == DlIdle /\ CapIdle /\ DbpIdle /\ CiIdle /\ SgInit /\ RegInit /\ CatIdle /\ SdIdle /\ RsIdle /\ AlIdle /\ LnIdle /\ HnIdle /\ DaoIdle /\ DrIdle /\ LkIdle /\ TdIdle /\ RgIdle /\ GcIdle
NextProposal ==
    \/ ProposalCreated
    \/ VoteConfirmed
    \/ BlockFarmed
    \/ GetProposalState
    \/ CreateProposalCloseSpend
    \/ \E w \in DaoWallets : DlWalletSynced(w)
    \/ DlCallerDone
SpecProposal == InitProposal /\ [][NextProposal]_vars

InitReorg == DrIdle /\ DlIdle /\ CapIdle /\ DbpIdle /\ CiIdle /\ SgInit /\ RegInit /\ CatIdle /\ SdIdle /\ RsIdle /\ AlIdle /\ LnIdle /\ HnIdle /\ DaoIdle /\ LkIdle /\ TdIdle /\ RgIdle /\ GcIdle
NextReorg ==
    \/ DaoSpendPushed
    \/ DrBlockFarmed
    \/ \E w \in DaoWallets : DrWalletSynced(w)
    \/ ReorgFromIndex
    \/ ReorgSettled
SpecReorg == InitReorg /\ [][NextReorg]_vars

InitLockup == LkIdle /\ DrIdle /\ DlIdle /\ CapIdle /\ DbpIdle /\ CiIdle /\ SgInit /\ RegInit /\ CatIdle /\ SdIdle /\ RsIdle /\ AlIdle /\ LnIdle /\ HnIdle /\ DaoIdle /\ TdIdle /\ RgIdle /\ GcIdle
NextLockup ==
    \/ \E v \in DaoWallets : CreateNewDaoCats(v)
    \/ \E p \in DaoProposalIds : LkProposalCreated(p)
    \/ \E v \in DaoWallets, p \in DaoProposalIds : GenerateProposalVoteSpendPushed(v, p)
    \/ LkFarmBlock
    \/ \E p \in DaoProposalIds : LkProposalClosed(p)
    \/ \E v \in DaoWallets : FreeCoinsFromFinishedProposals(v)
    \/ \E v \in DaoWallets : DaoExitLockup(v)
    \/ LkCallerDone
SpecLockup == InitLockup /\ [][NextLockup]_vars

InitTandem == TdIdle /\ LkIdle /\ DrIdle /\ DlIdle /\ CapIdle /\ DbpIdle /\ CiIdle /\ SgInit /\ RegInit /\ CatIdle /\ SdIdle /\ RsIdle /\ AlIdle /\ LnIdle /\ HnIdle /\ DaoIdle /\ RgIdle /\ GcIdle
NextTandem ==
    \/ GenerateUnsignedSpendbundle
    \/ TdCallerDone
SpecTandem == InitTandem /\ [][NextTandem]_vars

InitRing == RgIdle /\ TdIdle /\ LkIdle /\ DrIdle /\ DlIdle /\ CapIdle /\ DbpIdle /\ CiIdle /\ SgInit /\ RegInit /\ CatIdle /\ SdIdle /\ RsIdle /\ AlIdle /\ LnIdle /\ HnIdle /\ DaoIdle /\ GcIdle
NextRing ==
    \/ ConstructOuterSolution
    \/ RgCallerDone
SpecRing == InitRing /\ [][NextRing]_vars

(***************************************************************************)
(* Claims about get_capabilities (under SpecCaps)                          *)
(***************************************************************************)
\* the capability of the i-th entry of the master list
CapAt(i) == CapabilityOfInt(capMaster[i][1])

\* C9 (as claimed): for every disabled-list that contains BASE, the result has
\* the master list's length and order, BASE has flag "1", every other
\* capability named in the list has flag "0" and every capability not named
\* keeps its original flag.
C9_BaseKeptOthersDisabled ==
    (capPath /= "none" /\ ~capIn.none /\ capIn.kind = "list"
        /\ Contains(capIn.v, "BASE"))
    => /\ Len(capResult) = Len(capMaster)
       /\ \A i \in 1..Len(capMaster) :
            /\ capResult[i][1] = capMaster[i][1]
            /\ CapAt(i) = "BASE" => capResult[i][2] = "1"
            /\ (CapAt(i) /= "BASE" /\ Contains(capIn.v, CapAt(i)))
                    => capResult[i][2] = "0"
            /\ ~Contains(capIn.v, CapAt(i)) => capResult[i][2] = capMaster[i][2]

CapCallReturns == capPath = "none" /\ capPath' /= "none"

\* C39 (as claimed): get_capabilities modifies neither the disabled-list the
\* caller passed nor the master list: after the call, on the normal and on
\* the fallback path, both hold the entries they held before.
C39_CallerListAndMasterKept ==
    [][CapCallReturns => /\ capArg' = capIn'
                         /\ capMaster' = capMaster]_vars

\* what the code keeps: the master list on every call, and the caller's
\* object unless it is a list that holds BASE, which loses its first BASE
C39_MasterKeptFirstBaseRemoved ==
    [][CapCallReturns =>
          /\ capMaster' = capMaster
          /\ capArg' = IF /\ ~capIn'.none
                          /\ capIn'.kind = "list"
                          /\ Contains(capIn'.v, "BASE")
                       THEN [capIn' EXCEPT !.v = RemoveFirst(capIn'.v, "BASE")]
                       ELSE capIn']_vars

\* a caller's list that named BASE and another capability holds only the
\* other one after the call
C39_Witness ==
    /\ capPath = "updated"
    /\ capIn.kind = "list"
    /\ capIn.v = <<"BLOCK_HEADERS", "BASE">>
    /\ capArg.v = <<"BLOCK_HEADERS">>

(***************************************************************************)
(* Claims about dbp (under SpecDbp)                                        *)
(***************************************************************************)
\* C8 (as claimed): dbp with db_version > 1, whether or not a file was at
\* db_path before: on entry to the guarded block the file exists and holds the
\* table database_version with exactly one row, db_version; after normal exit
\* of the block no file exists at db_path.
C8_StubOnEntryGoneOnExit ==
    \A p \in Paths :
        /\ (dbpPc[p] /= "idle" /\ dbpVersion[p] > 1)
            => /\ dbpEntry[p].exists
               /\ dbpEntry[p].hasTable
               /\ dbpEntry[p].rows = <<dbpVersion[p]>>
        /\ (dbpPc[p] = "exited" /\ dbpVersion[p] > 1) => ~fs[p].exists

(***************************************************************************)
(* Claims about CoinInfo.create_spend_for_actions (under SpecCoinInfo)     *)
(***************************************************************************)
\* C1: whenever check_and_modify_actions returns an inner action whose name is
\* not among the inner driver's supported actions, the returned 'actions left'
\* list is the original input list (same elements, same order) and no action
\* is applied: the spend is built from empty outer and inner action lists.
C1_AbortReturnsOriginalActions ==
    (ciPc = "returned" /\ inner_unsupported(ciDrivers, ciModified.inner))
    => /\ ciResult.left = ciActions
       /\ ciResult.spend = NoSpend

\* an abort after the loop had taken some action for the inner driver and
\* de-aliased or left aside another
C1_Witness ==
    /\ ciPc = "returned"
    /\ inner_unsupported(ciDrivers, ciModified.inner)
    /\ \E i \in 1..Len(ciActions) : de_alias(ciDrivers, ciActions[i]).type \in ciDrivers.inner
    /\ Len(ciActions) = MaxActions
    /\ ciResult.left = ciActions

(***************************************************************************)
(* Claims about CATWallet.sign (under SpecSign)                            *)
(***************************************************************************)
\* coin spend i of the bundle is a CAT spend with an AGG_SIG_ME public key
\* other than the wallet's synthetic public key for it
Mismatch(i) ==
    /\ sgBundle[i].cat
    /\ \E j \in 1..Len(sgBundle[i].pks) : sgBundle[i].pks[j] /= synthetic_pk(sgBundle[i])

\* C2: if any CAT coin spend of the bundle declares an AGG_SIG_ME public key
\* other than the wallet's synthetic public key for that spend, sign raises
\* and returns no bundle: the loop never gets past that spend, and no bundle,
\* partially signed or not, is produced, however many signatures were made
\* before.
C2_MismatchRaisesNoBundle ==
    /\ (\E i \in 1..Len(sgBundle) : Mismatch(i))
        => /\ sgPc /= "returned"
           /\ sgResult = NoBundle
    /\ \A i \in 1..Len(sgBundle) : (Mismatch(i) /\ sgIdx > i) => sgPc = "raised"
    /\ \A i \in 1..Len(sgBundle) : (Mismatch(i) /\ sgIdx = i) => sgPc \in {"signing", "raised"}

\* sign raised on the last coin spend after signing an earlier spend and an
\* earlier obligation of the same spend
C2_Witness ==
    /\ sgPc = "raised"
    /\ sgIdx = MaxSpends
    /\ Len(sgSigs) > Len(sgBundle[1].pks)
    /\ Len(sgBundle[1].pks) > 0
    /\ sgResult = NoBundle

(***************************************************************************)
(* Claims about the creation paths (under Spec, SpecGetOrCreate)           *)
(***************************************************************************)
\* C3 (as claimed): whenever create_new_cat_wallet fails after the provisional
\* wallet record was registered, that record has been deleted from the wallet
\* store by the time the error reaches the caller.
C3_FailureDeletesProvisionalRecord ==
    (wCall.op = "create_new_cat_wallet" /\ wCall.outcome = "raised"
        /\ wCall.provisional /= 0)
    => ~\E r \in user_store : r.id = wCall.provisional

\* C4: create_new_cat_wallet with an amount greater than the funding wallet's
\* confirmed balance fails and leaves the registry as it was: no wallet record,
\* no wallet id given out, no registered wallet, no transaction queued.
C4_InsufficientBalanceChangesNothing ==
    (wCall.op = "create_new_cat_wallet" /\ wCall.amount > wCall.balance)
    => /\ wCall.outcome = "raised"
       /\ wCall.provisional = 0
       /\ Snapshot = wCall.pre

\* a refused creation in a registry that already holds a CAT wallet
C4_Witness ==
    /\ wCall.op = "create_new_cat_wallet"
    /\ wCall.amount = wCall.balance + 1
    /\ wCall.balance > 0
    /\ wCall.outcome = "raised"
    /\ \E w \in wallets : w.type = "CAT"

\* C17: the failure raised by create_new_cat_wallet(amount = funds + 1),
\* funds being the funding wallet's confirmed balance, carries a message
\* that contains both the value funds and the value funds + 1.
C17_MessageNamesBothValues ==
    (/\ wCall.op = "create_new_cat_wallet"
     /\ wCall.amount = wCall.balance + 1
     /\ wCall.outcome = "raised")
        => {wCall.balance, wCall.balance + 1} \subseteq wCall.message_values

\* C17, as the code has it: the failure raised by
\* create_new_cat_wallet(amount = funds + 1) carries the fixed message
\* "Not enough balance", into which no value is formatted.
C17_MessageIsFixedText ==
    (wCall.op = "create_new_cat_wallet" /\ wCall.amount = wCall.balance + 1)
        => /\ wCall.outcome = "raised"
           /\ wCall.message = "Not enough balance"
           /\ wCall.message_values = {}

\* a creation refused for one unit more than a positive balance
C17_Witness ==
    /\ wCall.op = "create_new_cat_wallet"
    /\ wCall.balance > 0
    /\ wCall.amount = wCall.balance + 1
    /\ wCall.outcome = "raised"
    /\ wCall.message = "Not enough balance"

\* the registered CAT wallets whose asset id is the one the spelling h names
WalletsOfSpelling(ws, h) ==
    {w \in ws : w.type = "CAT" /\ w.asset = FromHex(StripPrefix(h))}

\* C6: get_or_create_wallet_for_cat is idempotent: after any sequence of calls,
\* in any hex spelling, exactly one CAT wallet is registered for an asset id
\* that was asked for, and a call that finds one returns that same wallet and
\* creates neither a wallet record nor a lineage store.
C6_GetOrCreateIdempotent ==
    /\ \A a \in AssetIds : Cardinality({w \in wallets : w.type = "CAT" /\ w.asset = a}) <= 1
    /\ (wCall.op = "get_or_create_wallet_for_cat" /\ wCall.outcome = "returned")
        => /\ Cardinality(WalletsOfSpelling(wallets, wCall.hex)) = 1
           /\ \E w \in WalletsOfSpelling(wallets, wCall.hex) : w.id = wCall.wallet
           /\ WalletsOfSpelling(wCall.pre.wallets, wCall.hex) /= {}
                => /\ Snapshot = wCall.pre
                   /\ \E w \in wCall.pre.wallets : w.id = wCall.wallet
           /\ WalletsOfSpelling(wCall.pre.wallets, wCall.hex) = {}
                => /\ Cardinality(user_store) = Cardinality(wCall.pre.user_store) + 1
                   /\ Len(lineage_stores) = Len(wCall.pre.lineage_stores) + 1

\* a later call, spelled with a prefix and an upper-case digit, found the
\* wallet an earlier call had created
C6_Witness ==
    /\ wCall.op = "get_or_create_wallet_for_cat"
    /\ wCall.outcome = "returned"
    /\ Len(wCall.hex) = 4
    /\ wCall.hex[3] = "A"
    /\ WalletsOfSpelling(wCall.pre.wallets, wCall.hex) /= {}
    /\ Snapshot = wCall.pre

\* the string forms of the asset ids
AssetIdStrings == {ToHex(b) : b \in AssetIds}

\* C37 (as claimed): however two calls of get_or_create_wallet_for_cat for
\* the same asset id are interleaved at their awaits, at most one CAT wallet
\* of that asset id ends up registered.
C37_OneWalletPerAsset ==
    \A a \in AssetIdStrings : Cardinality(CatWalletsFor(wallets, a)) <= 1

\* what holds of the code: while every caller makes its call inside the
\* lock, at most one CAT wallet of an asset id is registered and at most one
\* row of it is stored
C37_OneWalletUnderLock ==
    ~gcSkipped =>
        \A a \in AssetIdStrings :
            /\ Cardinality(CatWalletsFor(wallets, a)) <= 1
            /\ Cardinality({r \in user_store : r.type = "CAT" /\ r.data = a}) <= 1

\* two calls for one asset id, both past the lookup before either has
\* registered its wallet, have both returned: two wallets of the asset
C37_Witness ==
    /\ \A t \in Tasks : gcCall[t].pc = "returned"
    /\ \E t, u \in Tasks :
          /\ t /= u
          /\ gcCall[t].asset = gcCall[u].asset
          /\ gcCall[t].wallet /= gcCall[u].wallet
          /\ Cardinality(CatWalletsFor(wallets, gcCall[t].asset)) = 2

\* two calls for one asset id made one after the other inside the lock: the
\* second returns the wallet of the first
C37_WitnessLocked ==
    /\ ~gcSkipped
    /\ \E t, u \in Tasks :
          /\ t /= u
          /\ gcCall[t].pc = "returned" /\ gcCall[t].locked
          /\ gcCall[u].pc = "idle"
          /\ CatWalletsFor(wallets, gcCall[t].asset) /= {}
          /\ next_wallet_id = 3

(***************************************************************************)
(* Claims about spending from a CAT wallet (under SpecMaxSend, SpecTx)     *)
(***************************************************************************)
\* the largest total of k of the spendable coins
LargestTotal(k) ==
    LET spendable == get_cat_spendable_coins(coin_store, tx_store)
        totals == {SumAmounts(S) : S \in {X \in SUBSET spendable : Cardinality(X) = k}}
    IN  CHOOSE v \in totals : \A w \in totals : v >= w

\* C5 (as claimed): get_max_send_amount returns the total of the largest
\* coins up to and including the coin with which the cumulative cost first
\* exceeds half the block cost (all coins if it never does); for 3 coins of
\* which the 3rd is that coin, the total of all 3.
C5_InclusiveOvershoot ==
    (msCall.op = "get_max_send_amount" /\ coin_store /= {})
    => LET n == Cardinality(get_cat_spendable_coins(coin_store, tx_store))
           over == {j \in 1..n : 2 * j * cost_of_single_tx.v > MAX_BLOCK_COST_CLVM}
           k == IF over = {} THEN n ELSE CHOOSE j \in over : \A i \in over : j <= i
       IN  msCall.amount = LargestTotal(k)

\* C5 (amended): get_max_send_amount returns the total of the k largest
\* spendable coins, where k stops at the first coin after which one more
\* transaction cost would exceed half the block cost: k is the coin count, or
\* (k + 1) costs exceed the half; and for k > 1 the cost of the k coins is
\* within the half. No coins gives 0.
C5_StopsBeforeOvershoot ==
    (msCall.op = "get_max_send_amount")
    => LET n == Cardinality(get_cat_spendable_coins(coin_store, tx_store))
           C == cost_of_single_tx.v
           M == MAX_BLOCK_COST_CLVM
       IN  \E k \in 0..n :
              /\ msCall.amount = LargestTotal(k)
              /\ (k = 0) <=> (n = 0)
              /\ k < n => 2 * (k + 1) * C > M
              /\ k > 1 => 2 * k * C <= M

\* three coins, the third of which would take the cost over the half: the
\* amount returned is the total of the two largest
C5_Witness ==
    /\ msCall.op = "get_max_send_amount"
    /\ Cardinality(coin_store) = 3
    /\ 2 * 2 * cost_of_single_tx.v <= MAX_BLOCK_COST_CLVM
    /\ 2 * 3 * cost_of_single_tx.v > MAX_BLOCK_COST_CLVM
    /\ msCall.amount = LargestTotal(2)
    /\ msCall.amount < SumAmounts(coin_store)

\* C7 (as claimed): across any interleaving of transaction constructions on
\* the wallet, no coin is selected by two different constructions, be they
\* still in progress or recorded.
C7_NoCoinSelectedTwice ==
    /\ \A t1, t2 \in Tasks : t1 /= t2 => txSel[t1] \cap txSel[t2] = {}
    /\ \A t \in Tasks : \A tx \in tx_store : txSel[t] \cap tx.removals = {}
    /\ \A tx1, tx2 \in tx_store : tx1 /= tx2 => tx1.removals \cap tx2.removals = {}

(***************************************************************************)
(* Claims about select_coins_from_spend_descriptions (under SpecSd)        *)
(***************************************************************************)
\* the call named an asset and the bundle holds no spend of that asset that
\* creates a coin left unspent in the bundle
NoSpendOfTarget ==
    /\ sdCall.op = "select_coins_from_spend_descriptions"
    /\ sdCall.coin_spec.form \in {"asset_id", "asset_description", "asset_types"}
    /\ \A i \in DOMAIN previous_actions :
          ~(previous_actions[i].cat /\ previous_actions[i].tail = sdCall.coin_spec.tail
              /\ is_parent_spend(previous_actions[i]))

\* C11 (as claimed): with no non-ephemeral spend of the target asset in the
\* bundle, the call returns an empty selection and the original coin_spec
\* unchanged, for every form of coin_spec and every target amount.
C11_EmptySelectionOriginalSpec ==
    NoSpendOfTarget => /\ sdCall.selected_coins = <<>>
                       /\ sdCall.returned = sdCall.coin_spec

\* C11 (amended): with no non-ephemeral spend of the target asset in the
\* bundle, the call returns an empty selection and a new coin_spec keyed by
\* asset_id with the target amount as a decimal string when the target is
\* positive, and no coin_spec (None) when it is not.
C11_EmptySelectionResidualSpec ==
    NoSpendOfTarget
    => /\ sdCall.selected_coins = <<>>
       /\ sdCall.returned =
             IF sdCall.coin_spec.amount.n > 0
             THEN CoinSpec("asset_id", sdCall.coin_spec.tail,
                           Amount("decimal", sdCall.coin_spec.amount.n))
             ELSE NoSolver

\* a coin_spec keyed by asset_types, its amount in hex, met a bundle that
\* spends another CAT only: the spec returned is keyed by asset_id
C11_Witness ==
    /\ NoSpendOfTarget
    /\ sdCall.coin_spec.form = "asset_types"
    /\ sdCall.coin_spec.amount = Amount("hex", 2)
    /\ \E i \in DOMAIN previous_actions :
          previous_actions[i].cat /\ is_parent_spend(previous_actions[i])
    /\ sdCall.returned = CoinSpec("asset_id", sdCall.coin_spec.tail, Amount("decimal", 2))

\* a call that named an asset: the selection loop ran (lines 964-1019)
SelectionRan ==
    /\ sdCall.op = "select_coins_from_spend_descriptions"
    /\ sdCall.coin_spec.form \in {"asset_id", "asset_description", "asset_types"}
\* the coins the bundle's spends of the target asset create, the spends that
\* leave no coin unspent in the bundle aside
CandidateCount ==
    SumSeq([i \in DOMAIN previous_actions |->
              IF /\ matches_expected_tail(previous_actions[i], sdCall.coin_spec.tail)
                 /\ is_parent_spend(previous_actions[i])
              THEN Len(previous_actions[i].conditions) ELSE 0])
SelectedPrefix(k) == SubSeq(sdCall.selected_coins, 1, k)

\* C35: select_coins_from_spend_descriptions takes coins created by the
\* bundle's spends of the target asset one after the other and stops with
\* the coin that brings their total to the target; the coin_spec it returns
\* asks for target minus the total selected when that is positive, and is
\* None when the total selected is at least the target.
C35_ResidualRequest ==
    SelectionRan =>
        LET target_amount == sdCall.coin_spec.amount.n
            total == SelectedAmount(sdCall.selected_coins)
        IN  /\ \A k \in DOMAIN sdCall.selected_coins :
                  LET p == sdCall.selected_coins[k].parent
                  IN  /\ previous_actions[p].cat
                      /\ previous_actions[p].tail = sdCall.coin_spec.tail
                      /\ \E j \in DOMAIN previous_actions[p].conditions :
                            previous_actions[p].conditions[j].amount
                                = sdCall.selected_coins[k].amount
            /\ \A k \in 1..(Len(sdCall.selected_coins) - 1) :
                  SelectedAmount(SelectedPrefix(k)) < target_amount
            /\ total < target_amount => Len(sdCall.selected_coins) = CandidateCount
            /\ total < target_amount =>
                  sdCall.returned = CoinSpec("asset_id", sdCall.coin_spec.tail,
                                             Amount("decimal", target_amount - total))
            /\ total >= target_amount => sdCall.returned = NoSolver

\* the bundle's coins of the asset fall short of the target: a residual
\* request for the rest
C35_Witness ==
    /\ SelectionRan
    /\ Len(sdCall.selected_coins) = 2
    /\ SelectedAmount(sdCall.selected_coins) = 3
    /\ sdCall.coin_spec.amount.n = 4
    /\ sdCall.returned = CoinSpec("asset_id", sdCall.coin_spec.tail, Amount("decimal", 1))

\* the target is reached before the bundle's coins of the asset are used up
C35_WitnessStopsEarly ==
    /\ SelectionRan
    /\ sdCall.coin_spec.amount.n > 0
    /\ sdCall.selected_coins /= <<>>
    /\ Len(sdCall.selected_coins) < CandidateCount
    /\ sdCall.returned = NoSolver

(***************************************************************************)
(* Claims about rpc_state (under SpecRpcStateFair)                         *)
(***************************************************************************)
\* C12 (as claimed): rpc_state is a bounded retry: whatever the polled
\* function and the condition do, IndexError included, a call that is polling
\* comes to an end (it returns, raises the timeout failure once the elapsed
\* time has reached the timeout, or passes on an error); it never polls
\* forever.
C12_PollingEnds ==
    (rsPc = "poll") ~> (rsPc \in {"returned", "timed_out", "raised"})

(***************************************************************************)
(* Claims about CoinInfo.alias_actions (under SpecAlias)                   *)
(***************************************************************************)
\* the registered aliases in the order default, inner driver, outer driver
RegisteredAliases ==
    [k \in 1..(Len(alDefault) + Len(alInner) + Len(alOuter)) |->
        IF k <= Len(alDefault)
        THEN [alias |-> AliasName("default", k), class |-> alDefault[k]]
        ELSE IF k <= Len(alDefault) + Len(alInner)
        THEN [alias |-> AliasName("inner", k - Len(alDefault)), class |-> alInner[k - Len(alDefault)]]
        ELSE [alias |-> AliasName("outer", k - Len(alDefault) - Len(alInner)),
              class |-> alOuter[k - Len(alDefault) - Len(alInner)]]]

\* the places of the aliases that stand for the action's name and convert it
Converting(action) ==
    {k \in DOMAIN RegisteredAliases :
        /\ RegisteredAliases[k].class.action_name = action.name
        /\ action.arg \in RegisteredAliases[k].class.accepts}

\* C13: alias_actions gives one result per input action, in input order: the
\* conversion by the first alias, in the order default, inner, outer, that
\* stands for the action's name and converts it without raising, or the
\* action itself when there is none; with no alias registered the result is
\* the input.
C13_FirstSucceedingAliasInOrder ==
    (alCall.op = "alias_actions")
    => /\ Len(alCall.result) = Len(alCall.actions)
       /\ \A i \in DOMAIN alCall.actions :
             LET action == alCall.actions[i]
                 ks == Converting(action)
             IN  IF ks = {} THEN alCall.result[i] = action
                 ELSE LET k == CHOOSE x \in ks : \A y \in ks : x <= y
                      IN  alCall.result[i] = [name |-> RegisteredAliases[k].alias,
                                              arg |-> action.arg]
       /\ RegisteredAliases = <<>> => alCall.result = alCall.actions

\* the default alias raised, the inner driver's and the outer driver's both
\* convert: the inner driver's is kept; the second action has no candidate
C13_Witness ==
    /\ alCall.op = "alias_actions"
    /\ Len(alCall.actions) = 2
    /\ Len(alDefault) = 1 /\ Len(alInner) = 1 /\ Len(alOuter) = 1
    /\ Converting(alCall.actions[1]) = {2, 3}
    /\ alDefault[1].action_name = alCall.actions[1].name
    /\ alCall.result[1].name = "inner_1"
    /\ alCall.result[2] = alCall.actions[2]

(***************************************************************************)
(* Claims about generate_signed_transaction                                *)
(***************************************************************************)

\* the lengths of the three lists of the call, memos counted as given
GstLengths ==
    {Len(gstCall.amounts), gstCall.n_puzzle_hashes}
        \cup (IF gstCall.memos.none THEN {} ELSE {gstCall.memos.n})

\* C14: a call of generate_signed_transaction whose amounts, puzzle_hashes
\* and memos are not all of the same length ends in the invalid-input
\* failure, without get_max_send_amount, select_coins,
\* generate_unsigned_spendbundle or sign having run, and with the wallet's
\* state (here the cost cache) as it was before the call.
C14_UnequalLengthsRejectedFirst ==
    (gstCall.op = "generate_signed_transaction" /\ Cardinality(GstLengths) > 1)
        => /\ gstCall.outcome = "invalid_input"
           /\ gstCall.steps = {}
           /\ gstCall.records = 0
           /\ cost_of_single_tx = gstCall.pre_cost

\* a call with unequal lengths on a wallet that could have paid the amounts,
\* with nothing cached before
C14_Witness ==
    /\ gstCall.op = "generate_signed_transaction"
    /\ Cardinality(GstLengths) > 1
    /\ gstCall.pre_cost = NoCost
    /\ SumSeq(gstCall.amounts) <= get_spendable_balance(coin_store, tx_store)
    /\ gstCall.outcome = "invalid_input"

WithoutProof ==
    {r \in get_unspent_coins_for_wallet(coin_records) :
        r.parent_coin_info \notin proven(lineage_store)}

\* C15: get_confirmed_balance returns the sum of the amounts of exactly the
\* unspent coins of the wallet whose lineage proof is resolvable; a coin
\* without one adds nothing.
C15_ConfirmedBalanceCountsProvenCoins ==
    cbCall.op = "get_confirmed_balance"
        => cbCall.amount
             = SumRecordAmounts({r \in coin_records : ~r.spent /\ r.wallet_id = self_id})
                   - SumRecordAmounts(WithoutProof)

\* a balance taken while the wallet holds an unspent coin with a proof, one
\* without, and a spent coin
C15_Witness ==
    /\ cbCall.op = "get_confirmed_balance"
    /\ WithoutProof /= {}
    /\ cbCall.amount > 0
    /\ \E r \in coin_records : r.spent

(***************************************************************************)
(* Claims about puzzle_solution_received (under SpecLineage)               *)
(***************************************************************************)
\* the tracked children of the spent parent that are this wallet's, as the
\* call found them
OwnChildren ==
    {r \in psCall.coin_records :
        r.parent_coin_info = psCall.parent_coin.name /\ r.wallet_id = self_id}
OwnChildNames == {r.name : r \in OwnChildren}

\* C30: puzzle_solution_received for a spend whose puzzle is no CAT deletes
\* the coin record, the lineage entry and the transaction record of every
\* tracked child of that parent that is this wallet's, and leaves the
\* children of other wallets and every other record as they were; for a
\* spend whose puzzle is a CAT it deletes nothing and stores
\* LineageProof(parent's parent id, parent's inner puzzle hash, parent's
\* amount) under the parent's coin id.
C30_ScrubFrame ==
    psCall.called
       => IF ~psCall.is_cat
          THEN /\ coin_records = psCall.coin_records \ OwnChildren
               /\ lineage_store = {e \in psCall.lineage_store : e.coin_id \notin OwnChildNames}
               /\ tx_records = psCall.tx_records \ OwnChildNames
          ELSE /\ coin_records = psCall.coin_records
               /\ tx_records = psCall.tx_records
               /\ {e \in lineage_store : e.coin_id /= psCall.parent_coin.name}
                     = {e \in psCall.lineage_store : e.coin_id /= psCall.parent_coin.name}
               /\ [coin_id |-> psCall.parent_coin.name,
                   proof |-> LineageProof(psCall.parent_coin.parent_coin_info,
                                          inner_puzzle_hash_of(psCall.parent_coin.name),
                                          psCall.parent_coin.amount)] \in lineage_store

\* a parent that is no CAT, with two tracked children of this wallet and one
\* of another wallet: the two are gone from the three stores, the third is
\* still there with its transaction record
C30_Witness ==
    /\ psCall.called /\ ~psCall.is_cat
    /\ Cardinality(OwnChildren) = 2
    /\ OwnChildNames \subseteq proven(psCall.lineage_store)
    /\ OwnChildNames \subseteq psCall.tx_records
    /\ \E r \in coin_records :
          /\ r.wallet_id /= self_id
          /\ r.parent_coin_info = psCall.parent_coin.name
          /\ r.name \in tx_records

\* a parent that is a CAT: its proof is stored, the child and its records
\* are kept
C30_WitnessCat ==
    /\ psCall.called /\ psCall.is_cat
    /\ OwnChildren /= {}
    /\ OwnChildren \subseteq coin_records
    /\ psCall.parent_coin.name \in proven(lineage_store)
    /\ psCall.parent_coin.name \notin proven(psCall.lineage_store)

(***************************************************************************)
(* Claims about the abort of create_spend_for_actions (under SpecCoinInfo) *)
(***************************************************************************)
\* C16: when create_spend_for_actions aborts (check_and_modify_actions
\* returned an inner action the inner driver does not support) no coin spend
\* is attempted: the drivers are not asked to construct a puzzle or a
\* solution and no CoinSpend is returned.
C16_AbortAttemptsNoSpend ==
    (ciPc = "returned" /\ inner_unsupported(ciDrivers, ciModified.inner))
        => /\ ciResult.constructed = {}
           /\ ~ciResult.coin_spend

\* a call that returned without the abort of lines 99-105
NotAborted == ciPc = "returned" /\ ~inner_unsupported(ciDrivers, ciModified.inner)
\* where the loop of lines 82-91 puts the i-th input action
ClassOf(i) ==
    LET t == de_alias(ciDrivers, ciActions[i]).type
    IN  IF t \in ciDrivers.outer THEN "outer"
        ELSE IF t \in ciDrivers.inner THEN "inner" ELSE "left"
\* the input actions of one class, in input order, as passed and de-aliased
RECURSIVE InputOfClass(_, _)
InputOfClass(c, n) ==
    IF n = 0 THEN <<>>
    ELSE IF ClassOf(n) = c THEN Append(InputOfClass(c, n - 1), ciActions[n])
    ELSE InputOfClass(c, n - 1)
RECURSIVE DeAliasedOfClass(_, _)
DeAliasedOfClass(c, n) ==
    IF n = 0 THEN <<>>
    ELSE IF ClassOf(n) = c
    THEN Append(DeAliasedOfClass(c, n - 1), de_alias(ciDrivers, ciActions[n]))
    ELSE DeAliasedOfClass(c, n - 1)
\* every input action is in one of the three lists and in no other
Partitioned ==
    /\ Len(ciResult.outer_actions) + Len(ciResult.inner_actions) + Len(ciResult.left)
          = Len(ciActions)
    /\ ciResult.outer_actions = DeAliasedOfClass("outer", Len(ciActions))
    /\ ciResult.inner_actions = DeAliasedOfClass("inner", Len(ciActions))

\* C38 (as claimed): when create_spend_for_actions does not abort, every
\* input action is in exactly one of outer actions, inner actions and
\* actions left, and the actions left are the input actions they came from,
\* unchanged and in input order.
C38_LeftIdenticalToInput ==
    NotAborted => /\ Partitioned
                  /\ ciResult.left = InputOfClass("left", Len(ciActions))

\* C38 (amended): when create_spend_for_actions does not abort, every input
\* action is in exactly one of outer actions, inner actions and actions
\* left; the actions left are, in input order, the de-aliased forms of the
\* input actions they came from, the input action itself where its type is
\* no registered alias.
C38_LeftDeAliased ==
    NotAborted =>
        /\ Partitioned
        /\ ciResult.left = DeAliasedOfClass("left", Len(ciActions))
        /\ \A i \in 1..Len(ciActions) :
              action_aliases(ciDrivers)[ciActions[i].type] = NoAlias
                  => de_alias(ciDrivers, ciActions[i]) = ciActions[i]

\* an alias whose de-aliased action no driver of the coin supports is left
\* over in its de-aliased form, next to actions of the other two classes
C38_Witness ==
    /\ NotAborted
    /\ Len(ciActions) = MaxActions
    /\ ciResult.outer_actions /= <<>>
    /\ ciResult.inner_actions /= <<>>
    /\ ciResult.left /= <<>>
    /\ ciResult.left /= InputOfClass("left", Len(ciActions))

(***************************************************************************)
(* Claims about setup_wallet_node and setup_full_node                      *)
(***************************************************************************)

\* where the events named e stand in the log
Positions(e) == {i \in 1..Len(hnLog) : hnLog[i].e = e}
\* every event named a stands before every event named b, and both occur
Precedes(a, b) ==
    /\ Positions(a) /= {}
    /\ Positions(b) /= {}
    /\ \A i \in Positions(a), j \in Positions(b) : i < j
\* what the constructor releases after the test
Released == {i \in 1..Len(hnLog) : /\ hnLog[i].e \in {"unlink", "delete_all_keys"}
                                   /\ \E j \in Positions("yield") : j < i}

\* C18: on normal exit setup_wallet_node and setup_full_node go through
\* construct, start, yield, stop, awaited shutdown, in this order, and the
\* database file is deleted and the keys are purged only after the service
\* has been stopped and wait_closed has completed, the service being shut
\* down by then.
C18_ReleaseAfterShutdown ==
    /\ \A i \in Released :
          /\ hnLog[i].service = "closed"
          /\ \E s \in Positions("stop"), w \in Positions("wait_closed") : s < w /\ w < i
    /\ hnPc = "done"
          => /\ Precedes("construct", "start")
             /\ Precedes("start", "yield")
             /\ Precedes("yield", "stop")
             /\ Precedes("stop", "wait_closed")
             /\ hnService = "closed"
             /\ ~hnDb.exists
             /\ hnKind = "setup_wallet_node" =>
                   (hnKeys = 0 /\ Precedes("wait_closed", "delete_all_keys"))

\* a wallet node released after a test that used it, its database file
\* deleted and its keys purged
C18_Witness ==
    /\ hnPc = "done"
    /\ hnKind = "setup_wallet_node"
    /\ hnBody > 0
    /\ \E i \in Released : hnLog[i].e = "unlink"
    /\ \E i \in Released : hnLog[i].e = "delete_all_keys"

\* the events the log holds after the guarded block raised
AfterRaise == {i \in 1..Len(hnLog) : \E r \in Positions("raise") : r < i}

\* C32: when the block guarded by dbp or by ms exits with an error, the code
\* after the yield is skipped: the database file stays at db_path as the
\* block left it, the service is not stopped and its shutdown is not awaited.
C32_ErrorSkipsCleanup ==
    Positions("raise") /= {}
        => /\ AfterRaise = {}
           /\ hnPc = "failed"
           /\ hnService = "started"
           /\ hnDb.exists
           /\ Positions("stop") = {}
           /\ Positions("wait_closed") = {}

\* a full node whose test raised after using the service: the file the node
\* wrote is still at db_path and the service is still running
C32_Witness ==
    /\ hnKind = "setup_full_node"
    /\ hnPc = "failed"
    /\ hnBody > 0
    /\ hnDb.exists /\ hnDb.other
    /\ hnService = "started"

(***************************************************************************)
(* Claims about the DAO voting tally (under SpecDao)                       *)
(***************************************************************************)

\* the weight of the first n confirmed vote spends on proposal p, all of
\* them or the yes-votes only
RECURSIVE ConfirmedWeight(_, _, _)
ConfirmedWeight(p, yes_only, n) ==
    IF n = 0 THEN 0
    ELSE LET s == daoConfirmed[n]
             counts == s.proposal_id = p /\ (s.is_yes_vote \/ ~yes_only)
         IN  ConfirmedWeight(p, yes_only, n - 1) + (IF counts THEN s.vote_amount ELSE 0)

\* C20: for every proposal, after any sequence of confirmed vote spends,
\* amount_voted is the initial vote plus the sum of all confirmed vote
\* amounts, yes_votes is the initial vote plus the sum of the confirmed
\* yes-vote amounts (so yes_votes <= amount_voted), and every participant's
\* synced wallet reports these two values.
C20_VoteTally ==
    \A p \in DaoProposalIds :
        daoChain[p].exists
            => /\ daoChain[p].amount_voted
                     = daoChain[p].initial + ConfirmedWeight(p, FALSE, Len(daoConfirmed))
               /\ daoChain[p].yes_votes
                     = daoChain[p].initial + ConfirmedWeight(p, TRUE, Len(daoConfirmed))
               /\ daoChain[p].yes_votes <= daoChain[p].amount_voted
               /\ \A w \in DaoWallets :
                     daoSynced[w]
                         => /\ daoInfo[w][p].amount_voted = daoChain[p].amount_voted
                            /\ daoInfo[w][p].yes_votes = daoChain[p].yes_votes

\* a proposal with a confirmed yes-vote and a confirmed no-vote, seen by
\* every participant
C20_Witness ==
    \E p \in DaoProposalIds :
        /\ daoChain[p].exists
        /\ \E i, j \in 1..Len(daoConfirmed) :
              /\ daoConfirmed[i].proposal_id = p /\ daoConfirmed[i].is_yes_vote
              /\ daoConfirmed[j].proposal_id = p /\ ~daoConfirmed[j].is_yes_vote
        /\ daoChain[p].yes_votes < daoChain[p].amount_voted
        /\ \A w \in DaoWallets : daoSynced[w]

(***************************************************************************)
(* Claims about the life of a DAO proposal (under SpecProposal)            *)
(***************************************************************************)

\* the thresholds, on the proposal the call saw
ThresholdsMetAtCall ==
    /\ dlCall.pre.amount_voted >= attendance_required
    /\ dlCall.pre.yes_votes * 10000 >= dlCall.pre.amount_voted * pass_percentage
\* the height of the call
HeightAtCall == IF dlCall.outcome = "closed" THEN dlHeight - 1 ELSE dlHeight
\* the blocks between the proposal's creation and the call
ElapsedAtCall == HeightAtCall - dlCall.pre.created

CloseOfClosable ==
    /\ dlCall.op = "create_proposal_close_spend"
    /\ dlCall.closable
    /\ ~dlCall.pre.closed
\* the participant's wallet has synced to the chain
DlSynced(w) == dlInfo[w] = dlProposal

\* C24: create_proposal_close_spend on a closable proposal whose payload is
\* no spend, mint or update fails with "Unrecognised proposal type" and
\* changes nothing, unless self_destruct is true; with self_destruct the
\* close never fails that way, the mempool takes it when soft_close_length
\* blocks have passed since the proposal's last spend, and once confirmed the
\* proposal is closed on every synced participant with the treasury's
\* balance unchanged.
C24_UnrecognisedPayload ==
    (CloseOfClosable /\ dlCall.pre.kind = "bad")
       => IF ~dlCall.self_destruct
          THEN /\ dlCall.outcome = "Unrecognised proposal type"
               /\ dlProposal = dlCall.pre
               /\ dlTreasury = dlCall.pre_treasury
               /\ dlRecipient = dlCall.pre_recipient
          ELSE /\ dlCall.outcome /= "Unrecognised proposal type"
               /\ HeightAtCall - dlCall.pre.last_spend >= soft_close_length
                     => dlCall.outcome = "closed"
               /\ dlCall.outcome = "closed"
                     => /\ dlProposal.closed
                        /\ dlTreasury = dlCall.pre_treasury
                        /\ dlRecipient = dlCall.pre_recipient
                        /\ \A w \in DaoWallets : DlSynced(w) => dlInfo[w].closed

\* a broken proposal that passed, force-closed, every participant synced
C24_Witness ==
    /\ CloseOfClosable
    /\ dlCall.pre.kind = "bad"
    /\ dlCall.self_destruct
    /\ dlCall.outcome = "closed"
    /\ dlCall.passed
    /\ \A w \in DaoWallets : DlSynced(w) /\ dlInfo[w].closed

\* C25: closing a closable proposal that did not pass marks it closed with
\* passed = false on every synced participant and executes none of its
\* effect: neither the treasury's nor the recipient's balance changes.
C25_FailedProposal ==
    (CloseOfClosable /\ ~dlCall.passed /\ dlCall.outcome = "closed")
       => /\ dlProposal.closed /\ ~dlProposal.passed
          /\ dlRecipient = dlCall.pre_recipient
          /\ dlTreasury = dlCall.pre_treasury
          /\ \A w \in DaoWallets : DlSynced(w) => (dlInfo[w].closed /\ ~dlInfo[w].passed)

\* a spend proposal that failed, closed without self_destruct, every
\* participant synced
C25_Witness ==
    /\ CloseOfClosable
    /\ ~dlCall.passed
    /\ dlCall.outcome = "closed"
    /\ dlCall.pre.kind = "spend"
    /\ ~dlCall.self_destruct
    /\ \A w \in DaoWallets : DlSynced(w) /\ dlInfo[w].closed /\ ~dlInfo[w].passed

(***************************************************************************)
(* Claims about DAO wallets under a reorg (under SpecReorg)                *)
(***************************************************************************)
\* the chain is again at least as high as before the reorg, the spends the
\* reorg removed are confirmed again, every wallet is synced
ReExtended ==
    /\ drReorg.taken
    /\ drMempool = <<>>
    /\ Len(drChain) >= drReorg.height
    /\ \A w \in DaoWallets : drView[w].height = Len(drChain)

\* C22: once the chain that a reorg rolled back is extended to the same or a
\* greater height and the wallets are synced, every participant reports the
\* balance it reported before, and the same proposals with the same
\* amount_voted, yes_votes, passed and closed: none twice, none lost.
C22_ReorgLeavesViews ==
    ReExtended =>
        \A w \in DaoWallets : dao_info_after(drView[w].applied) = drReorg.dao_info[w]

\* a reorg that removed a vote on a proposal, re-extended and synced
C22_Witness ==
    /\ ReExtended
    /\ \E w \in DaoWallets :
          /\ Len(drReorg.dao_info[w].proposals_list) = 1
          /\ drReorg.dao_info[w].proposals_list[1].amount_voted > 2
          /\ \E i \in 1..Len(drView[w].applied) :
                /\ drView[w].applied[i].spend.kind = "vote"
                /\ drView[w].applied[i].height > drReorg.height - MaxReorg

(***************************************************************************)
(* Claims about the DAO CAT lockup (under SpecLockup)                      *)
(***************************************************************************)
\* two vote spends of different voters that the block found in the mempool,
\* both built on the coin proposal p had before the block
Concurrent(s, t, p) ==
    /\ s \in lkCall.mempool /\ t \in lkCall.mempool
    /\ s.voter /= t.voter
    /\ s.proposal_id = p /\ t.proposal_id = p
    /\ vote_valid(s, lkCall.proposals, lkCall.locked)
    /\ vote_valid(t, lkCall.proposals, lkCall.locked)
\* the block applied the vote of s and not the vote of t
AppliedNot(s, t, p) ==
    /\ lkProposal[p].amount_voted = lkCall.proposals[p].amount_voted + s.vote_amount
    /\ get_votable_balance(lkLocked[s.voter], p) = 0
    /\ get_votable_balance(lkLocked[t.voter], p) = lkCall.locked[t.voter].amount
    /\ lkCall.locked[t.voter].amount > 0

\* C23: when two participants each submit a vote spend built on the same
\* confirmed state of one proposal, the next block applies exactly one of
\* them: amount_voted grows by that vote's weight, that voter's votable
\* balance for the proposal is 0 and the other voter's weight stays fully
\* votable.
C23_ConcurrentVotes ==
    lkCall.op = "farm_new_transaction_block"
       => \A p \in DaoProposalIds : \A s, t \in lkCall.mempool :
             Concurrent(s, t, p) => (AppliedNot(s, t, p) \/ AppliedNot(t, s, p))

\* a block that found two votes on one proposal coin, with different weights
C23_Witness ==
    /\ lkCall.op = "farm_new_transaction_block"
    /\ \E p \in DaoProposalIds : \E s, t \in lkCall.mempool :
          /\ Concurrent(s, t, p)
          /\ s.vote_amount /= t.vote_amount
          /\ AppliedNot(s, t, p)

\* C26: once every proposal that holds a locked coin's weight is closed and
\* free_coins_from_finished_proposals is confirmed, the coin's active_votes
\* is empty; dao_exit_lockup then returns the freed coin, so the locked
\* balance is 0 and the CAT wallet's balance is higher by exactly the amount
\* released; locking, voting, freeing and leaving neither make nor lose a
\* CAT.
C26_LockupRelease ==
    /\ \A v \in DaoWallets : lkCat[v] + lkLocked[v].amount = MaxCats
    /\ \A v \in DaoWallets :
          (/\ lkCall.op = "free_coins_from_finished_proposals"
           /\ lkCall.voter = v
           /\ \A p \in lkCall.locked[v].active_votes : lkProposal[p].closed)
             => lkLocked[v].active_votes = {}
    /\ \A v \in DaoWallets :
          (/\ lkCall.op = "dao_exit_lockup"
           /\ lkCall.voter = v
           /\ lkCall.locked[v].active_votes = {})
             => /\ lkLocked[v].amount = 0
                /\ lkCat[v] = lkCall.cat[v] + lkCall.locked[v].amount

\* a voter whose coin voted on a proposal that is now closed has left the
\* lockup with all it locked
C26_Witness ==
    \E v \in DaoWallets :
       /\ lkCall.op = "dao_exit_lockup"
       /\ lkCall.voter = v
       /\ lkCall.locked[v].amount = MaxCats
       /\ lkCat[v] = MaxCats
       /\ lkLocked[v] = NoLocked
       /\ lkLocked[CHOOSE w \in DaoWallets : w /= v] = NoLocked
       /\ lkCat[CHOOSE w \in DaoWallets : w /= v] = MaxCats
       /\ \E p \in DaoProposalIds :
             lkProposal[p].closed /\ lkProposal[p].amount_voted = MaxCats

(***************************************************************************)
(* Claims about the tandem XCH transaction (under SpecTandem)              *)
(***************************************************************************)
\* the announcer's inner solution asserts announcement a
AnnouncerAsserts(a) ==
    /\ tdCall.innersol.coin_announcements_to_assert.some
    /\ a \in tdCall.innersol.coin_announcements_to_assert.names
FeeAboveClaim == tdCall.need_chia_transaction /\ tdCall.fee > tdCall.regular_chia_to_claim
ClaimAboveFee == tdCall.need_chia_transaction /\ tdCall.regular_chia_to_claim > tdCall.fee

\* C27 (as claimed): when generate_unsigned_spendbundle needs a tandem XCH
\* transaction, the announcer coin's inner solution asserts the coin
\* announcement that the tandem transaction creates, when the fee exceeds
\* the claim and when the claim exceeds the fee.
C27_AnnouncerAssertsTandem ==
    tdCall.need_chia_transaction => AnnouncerAsserts(tdCall.chia_tx.creates)

\* what the code does when the fee exceeds the claim: the tandem transaction
\* asserts the announcer's announcement, the announcer asserts what the
\* caller passed and nothing of the tandem transaction
C27_FeeCaseOneWay ==
    FeeAboveClaim
       => /\ tdCall.chia_tx.coin_announcements_to_consume
                = SomeSet({Announcement(tdCall.first, std_hash(tdCall.cat_coins))})
          /\ tdCall.innersol.coin_announcements_to_assert = tdCall.to_consume
          /\ ~AnnouncerAsserts(tdCall.chia_tx.creates)

\* what the code does when the claim exceeds the fee: the announcer asserts
\* its own announcement, the tandem transaction asserts nothing
C27_ClaimCaseSelf ==
    ClaimAboveFee
       => /\ tdCall.innersol.coin_announcements_to_assert
                = SomeSet({Announcement(tdCall.first, std_hash(tdCall.cat_coins))})
          /\ ~tdCall.chia_tx.coin_announcements_to_consume.some
          /\ ~AnnouncerAsserts(tdCall.chia_tx.creates)

\* a call that returned a bundle
BundleBuilt == tdCall.called /\ tdCall.raised = "none"
SelectedCoins == {tdCall.cat_coins[i] : i \in 1..Len(tdCall.cat_coins)}
\* the coins other than the first
Followers == 2..Len(tdCall.cat_coins)
\* a condition that creates a coin: the CAT puzzle takes CREATE_COIN with
\* the amount -113 as the call of the TAIL and creates nothing for it
CreatesCoin(condition) == condition.opcode = 51 /\ condition.amount /= 0 - 113
\* the sum of the amounts of the coins the inner solutions create
RECURSIVE CreatedAmount(_)
CreatedAmount(n) ==
    IF n = 0 THEN 0
    ELSE SumPayments(tdCall.innersols[n].primaries) + CreatedAmount(n - 1)

\* C33: in every bundle generate_unsigned_spendbundle builds, the first
\* selected coin and no other creates the coin announcement, whose message
\* is the hash of the ids of all selected coins in a row, and carries the
\* payments and the change; every other selected coin creates no coin and
\* asserts the announcement of the first coin and no other.
C33_AnnouncerBindsBatch ==
    BundleBuilt =>
        LET announcement == Announcement(tdCall.cat_coins[1], std_hash(tdCall.cat_coins))
        IN  /\ tdCall.innersols[1].coin_announcements = {announcement.message}
            /\ tdCall.innersols[1].primaries = tdCall.primaries
            /\ \A i \in 1..Len(tdCall.payments) : tdCall.primaries[i] = tdCall.payments[i]
            /\ tdCall.change > 0 =>
                  tdCall.primaries[Len(tdCall.primaries)].amount = tdCall.change
            /\ \A i \in 1..Len(tdCall.cat_coins) :
                  \A k \in 1..Len(tdCall.innersols[i].extra_conditions) :
                      ~CreatesCoin(tdCall.innersols[i].extra_conditions[k])
            /\ \A i \in Followers :
                  /\ tdCall.innersols[i].coin_announcements = {}
                  /\ tdCall.innersols[i].primaries = <<>>
                  /\ tdCall.innersols[i].coin_announcements_to_assert
                        = SomeSet({announcement})

\* two coins spent with a cat_discrepancy, payments, change and external
\* announcements to consume
C33_Witness ==
    /\ BundleBuilt
    /\ Len(tdCall.cat_coins) = 2
    /\ tdCall.cat_discrepancy.some
    /\ Len(tdCall.payments) = 2
    /\ tdCall.change > 0
    /\ tdCall.to_consume = SomeSet({ExternalAnnouncement})
    /\ tdCall.innersols[2].extra_conditions /= <<>>

\* C34: generate_unsigned_spendbundle makes a tandem XCH transaction exactly
\* when fee minus regular_chia_to_claim is not zero; when it is zero the
\* returned transaction is None and the bundle spends the CAT coins only.
C34_TandemIffNetNonZero ==
    BundleBuilt =>
        /\ tdCall.chia_tx.made <=> tdCall.fee - tdCall.regular_chia_to_claim /= 0
        /\ tdCall.chia_tx.made => tdCall.bundle \ SelectedCoins /= {}
        /\ tdCall.fee - tdCall.regular_chia_to_claim = 0 =>
              /\ tdCall.chia_tx = NoChiaTx
              /\ tdCall.bundle = SelectedCoins

\* a melt whose claim equals the fee: no tandem transaction although both
\* are positive
C34_Witness ==
    /\ BundleBuilt
    /\ tdCall.fee > 0
    /\ tdCall.fee = tdCall.regular_chia_to_claim
    /\ ~tdCall.chia_tx.made
    /\ tdCall.bundle = SelectedCoins

\* a bundle with a tandem transaction
C34_WitnessTandem ==
    /\ BundleBuilt
    /\ tdCall.chia_tx.made
    /\ tdCall.regular_chia_to_claim > tdCall.fee

\* C36: in every bundle generate_unsigned_spendbundle builds, the amounts of
\* the CAT coins created sum to the total of the selected coins plus
\* extra_delta; the change is the selected total minus (payments minus
\* extra_delta) and is not negative; the change payment is appended exactly
\* when the change is positive.
C36_ValueConserved ==
    BundleBuilt =>
        /\ CreatedAmount(Len(tdCall.cat_coins))
              = SumCoins(tdCall.cat_coins) + tdCall.extra_delta
        /\ tdCall.change
              = SumCoins(tdCall.cat_coins) - (SumPayments(tdCall.payments) - tdCall.extra_delta)
        /\ tdCall.change >= 0
        /\ tdCall.change > 0 =>
              /\ Len(tdCall.primaries) = Len(tdCall.payments) + 1
              /\ tdCall.primaries[Len(tdCall.primaries)].amount = tdCall.change
        /\ tdCall.change = 0 => tdCall.primaries = tdCall.payments

\* a mint with change
C36_Witness ==
    /\ BundleBuilt
    /\ tdCall.extra_delta > 0
    /\ tdCall.change > 0
    /\ Len(tdCall.payments) = 2
    /\ Len(tdCall.cat_coins) = 2

\* a melt that uses the selected coins up
C36_WitnessNoChange ==
    /\ BundleBuilt
    /\ tdCall.extra_delta < 0
    /\ tdCall.change = 0
    /\ tdCall.payments /= <<>>

\* a selection below the starting amount: the call raises
C36_WitnessRaised == tdCall.called /\ tdCall.raised = "AssertionError"

(***************************************************************************)
(* Claims about OuterDriver.construct_outer_solution (under SpecRing)      *)
(***************************************************************************)
\* the optimizing pass ran for a member of the ring
RingCall == rgCall.outcome \in {"full_solution", "IndexError"}
RingSize == Len(rgCall.ring)

\* the sum of the declared payment amounts of a member
RECURSIVE DeclaredOutput(_)
DeclaredOutput(actions) ==
    IF actions = <<>> THEN 0
    ELSE (IF type_in_payment_types(Head(actions).type) THEN Head(actions).amount ELSE 0)
            + DeclaredOutput(Tail(actions))
\* subtotals[i] of the contract: subtotals[0] = 0,
\* subtotals[i] = subtotals[i-1] + output[i] - coin_amount[i]
RECURSIVE PrefixSubtotal(_)
PrefixSubtotal(i) ==
    IF i = 0 THEN 0
    ELSE PrefixSubtotal(i - 1) + DeclaredOutput(rgCall.spends[rgCall.ring[i + 1]].actions)
            - rgCall.spends[rgCall.ring[i + 1]].amount

\* C28 (as claimed): in the optimizing pass, for a ring of any size and any
\* member, each member's output is the sum of its declared payment amounts,
\* the member's subtotal is the prefix sum subtotals[0] = 0, subtotals[i] =
\* subtotals[i-1] + output[i] - coin_amount[i], and the call completes with
\* a solution.
C28_Subtotals ==
    RingCall
       => /\ rgCall.outcome = "full_solution"
          /\ rgCall.subtotal = PrefixSubtotal(rgCall.my_index)

\* what the code does: the type test lets no action through, so only a ring
\* of one coin gets a solution, with subtotal 0
C28_OnlySingleRingsComplete ==
    RingCall
       => /\ rgCall.output_amounts = <<>>
          /\ rgCall.outcome = "full_solution" <=> RingSize = 1
          /\ rgCall.outcome = "full_solution" => rgCall.subtotal = 0

C29_WitnessSingle ==
    /\ rgCall.outcome = "full_solution"
    /\ RingSize = 1
    /\ rgCall.previous = rgCall.my_id /\ rgCall.next = rgCall.my_id
    /\ \E c \in RingCoinIds : rgCall.spends[c].kind = "not_cat"

(***************************************************************************)
(* Claims about coin_added and the three balances (under SpecLineage)      *)
(***************************************************************************)
\* the proof coin_added stores for the coin itself
OwnProof(coin) ==
    [coin_id |-> coin.name,
     proof |-> LineageProof(coin.parent_coin_info, inner_puzzle_hash_of(coin.name),
                            coin.amount)]
\* the backfill of the last coin_added was tried and failed
BackfillFailed ==
    caCall.called /\ ~caCall.lineage_known /\ caCall.backfill = "error"

\* C31: coin_added stores the coin's own lineage proof before it tries the
\* backfill of the parent's, and an error of the backfill is swallowed: the
\* call returns without raising, the proof stored is kept, the coin's record
\* stays, and while the parent's lineage is unknown the coin adds nothing to
\* the confirmed balance and is not spendable.
C31_BackfillErrorSwallowed ==
    /\ caCall.called => ~caCall.raised
    /\ BackfillFailed
          => /\ OwnProof(caCall.coin) \in lineage_store
             /\ caCall.coin \in coin_records
             /\ caCall.coin.parent_coin_info \notin proven(lineage_store)
    /\ \A r \in get_unspent_coins_for_wallet(coin_records) :
          r.parent_coin_info \notin proven(lineage_store)
             => /\ get_confirmed_balance(coin_records, lineage_store)
                      = get_confirmed_balance(coin_records \ {r}, lineage_store)
                /\ r \notin cat_spendable_records(coin_records, lineage_store, {})

\* a failed backfill for a coin that came while the wallet holds a counted
\* coin
C31_Witness ==
    /\ BackfillFailed
    /\ OwnProof(caCall.coin) \in lineage_store
    /\ get_confirmed_balance(coin_records, lineage_store) > 0
    /\ caCall.coin \in get_unspent_coins_for_wallet(coin_records)

\* C40: in every wallet state get_max_send_amount <= get_spendable_balance
\* <= get_confirmed_balance, and get_max_send_amount is 0 exactly when the
\* wallet has no spendable coin.
C40_BalancesOrdered ==
    cbCall.op = "balances"
       => /\ cbCall.max_send <= cbCall.spendable
          /\ cbCall.spendable <= cbCall.amount
          /\ cbCall.max_send = 0 <=> cbCall.spendable_coins = 0

\* a wallet state where the three differ
C40_Witness ==
    /\ cbCall.op = "balances"
    /\ 0 < cbCall.max_send
    /\ cbCall.max_send < cbCall.spendable
    /\ cbCall.spendable < cbCall.amount

=============================================================================
